---- MODULE Spec2Model ----
(***************************************************************************)
(* Model of valyala/gheap: the generalized (paged d-ary) heap of gheap.h   *)
(* and the heap algorithms of galgorithm.h.                                *)
(*                                                                         *)
(* Items are small integers, the buffer `base' is a function over          *)
(* 0..n-1 (C indexes), and a heap context is the record                    *)
(* [fanout, page_chunks, inv] (inv is tests.c's less_comparer_ctx).        *)
(* The heap primitives are operators translated statement by statement     *)
(* from gheap.h; they thread a record [a, top, self] holding the buffer,   *)
(* the highest slot index touched so far and whether the item mover was    *)
(* ever called with the same source and destination slot.                  *)
(***************************************************************************)
EXTENDS Integers, Sequences, FiniteSets, TLC

\* ---------------------------------------------------------------- bounds
MaxN == 6          \* longest buffer
MaxItem == 1       \* items are 0..MaxItem
MaxFanout == 2     \* fanout is 1..MaxFanout
MaxChunks == 2     \* page_chunks is 1..MaxChunks
MaxMerge == 5      \* most items in the inputs of a merge
SizeBits == 6      \* width of size_t in the index arithmetic of gheap_c.c
MaxIndexFanout == 4    \* fanout is 1..MaxIndexFanout in the index arithmetic
MaxIndexChunks == 3    \* page_chunks likewise
MaxQueue == 4      \* most elements a priority queue holds
MaxSort == 5       \* longest range given to nway_mergesort
MaxSmallRange == 2 \* largest small_range_size
MaxSubranges == 3  \* largest subranges_count
MaxPushes == 2     \* most pushes on a priority queue
MaxShapeN == 4     \* longest buffer two shapes are compared on
MaxCallN == 5      \* longest buffer a watched call is made on

Items == 0..MaxItem

VARIABLES ctx, base, heap_size, item, op, pre, pre_size, pre_item, arg

\* The n-way merge: the input contexts, the items put to the output and the
\* number of get() and next() calls made on an exhausted input.
VARIABLES ctxs, out, late

mergeVars == <<ctxs, out, late>>

\* The index arithmetic of gheap_c.c: the node index u that
\* test_parent_child is at and the indexes it has computed from it.
VARIABLES node, links

indexVars == <<node, links>>

\* What gheap_is_heap_until and gheap_is_heap have returned: of gheap.h
\* (until, is_heap) and of gheap_c.c (until_c, is_heap_c).
VARIABLES heap_until

\* The priority queue: its buffer and size, and what has been seen of it (the
\* elements that entered it, the calls of the deleter, the calls made).
VARIABLES queue

\* What a call of nway_mergesort did: the range it left, its parameters, and
\* for every pass of step 2 the run size and the number of runs of every merge.
VARIABLES mergesort

\* What an experiment on the buffer found: the same call made in two ways, or
\* a call observed slot by slot.
VARIABLES probe

others == <<mergeVars, indexVars, heap_until, queue, mergesort, probe>>

vars == <<ctx, base, heap_size, item, op, pre, pre_size, pre_item, arg, others>>

\* ---------------------------------------------------------------- helpers
Min(S) == CHOOSE x \in S : \A y \in S : x <= y

Max2(x, y) == IF x >= y THEN x ELSE y

Size(a) == Cardinality(DOMAIN a)

\* Statement sequencing.  CHOOSE result \in {F(h) : h \in {x}} : TRUE is F(x)
\* with x computed once, before F's body, as a statement of the C code whose
\* value the following statements read.

\* tests.c less_comparer: a < b, or b < a when the context asks to invert.
less_comparer(c, x, y) == IF c.inv THEN y < x ELSE x < y

\* tests.c nway_input_get: the item an input context points at.  The context
\* is [next, end], two indexes into the memory mem that holds the inputs;
\* the code asserts next < end, an exhausted context reads as no item (-1).
nway_input_get(mem, h) ==
  IF h.next < h.end /\ h.next \in DOMAIN mem THEN mem[h.next] ELSE -1

\* Mutant: the two contexts are compared in the order they are given.
nway_less_comparer_not_swapped(c, x, y) ==
  less_comparer(c, nway_input_get(c.mem, x), nway_input_get(c.mem, y))

\* galgorithm.h _galgorithm_nway_less_comparer: compares two input contexts
\* by the items they point at, with the arguments swapped, so that the
\* context with the smallest current item is the maximum of the heap.
_galgorithm_nway_less_comparer(c, x, y) ==
  less_comparer(c, nway_input_get(c.mem, y), nway_input_get(c.mem, x))

\* ctx->less_comparer(ctx->less_comparer_ctx, x, y): the comparer the context
\* carries, which is _galgorithm_nway_less_comparer in the context that
\* galgorithm_nway_merge builds (the one with the inputs' memory) and
\* tests.c's less_comparer otherwise.
ctx_less_comparer(c, x, y) ==
  IF "mem" \in DOMAIN c
    THEN _galgorithm_nway_less_comparer(c, x, y)
    ELSE less_comparer(c, x, y)

\* base[index]; a slot outside the buffer reads as an item outside Items.
_gheap_get_item_ptr(a, index) == IF index \in DOMAIN a THEN a[index] ELSE -1

NewSt(a) == [a |-> a, top |-> -1, self |-> FALSE]

Touch(st, index) == [st EXCEPT !.top = Max2(@, index)]

\* ctx->item_mover(&base[dst_index], src) with src outside the buffer.
_gheap_move_item(st, dst_index, src) ==
  [a |-> IF dst_index \in DOMAIN st.a
           THEN [st.a EXCEPT ![dst_index] = src] ELSE st.a,
   top |-> Max2(st.top, dst_index),
   self |-> st.self]

\* ctx->item_mover(&base[dst_index], &base[src_index]).
_gheap_move(st, dst_index, src_index) ==
  [a |-> IF dst_index \in DOMAIN st.a
           THEN [st.a EXCEPT ![dst_index] = _gheap_get_item_ptr(st.a, src_index)]
           ELSE st.a,
   top |-> Max2(st.top, Max2(dst_index, src_index)),
   self |-> st.self \/ dst_index = src_index]

_gheap_less(c, a, a_index, b_index) ==
  ctx_less_comparer(c, _gheap_get_item_ptr(a, a_index),
                       _gheap_get_item_ptr(a, b_index))

\* ---------------------------------------------------------------- sift up
\* The in-page climb of _gheap_sift_up (the loops at gheap.h:227-239 and
\* gheap.h:262-274 differ only in their lower bound rel_min).
\* Result: [st, hole, end]; end is the `goto end'.
RECURSIVE SiftUpInPage(_, _, _, _, _, _)
SiftUpInPage(c, st, base_index, rel_hole_index, rel_min, it) ==
  IF rel_hole_index >= rel_min
    THEN LET rel_parent_index == (rel_hole_index \div c.fanout) - 1
             parent == base_index + rel_parent_index
             st1 == Touch(st, parent)
         IN IF ~ctx_less_comparer(c, _gheap_get_item_ptr(st.a, parent), it)
              THEN [st |-> st1, hole |-> base_index + rel_hole_index,
                    end |-> TRUE]
              ELSE SiftUpInPage(c,
                     _gheap_move(st1, base_index + rel_hole_index, parent),
                     base_index, rel_parent_index, rel_min, it)
    ELSE [st |-> st, hole |-> base_index + rel_hole_index, end |-> FALSE]

\* One step of the page-to-page climb after the in-page climb r1: the parent
\* of the page is compared with the item (gheap.h:241-250).
RECURSIVE SiftUpPages(_, _, _, _, _)
SiftUpPageParent(c, r1, root_index, parent_index, it) ==
  IF r1.end
    THEN r1
    ELSE IF ~ctx_less_comparer(c, _gheap_get_item_ptr(r1.st.a, parent_index), it)
           THEN [st |-> Touch(r1.st, parent_index), hole |-> r1.hole,
                 end |-> TRUE]
           ELSE SiftUpPages(c,
                  _gheap_move(Touch(r1.st, parent_index), r1.hole, parent_index),
                  root_index, parent_index, it)

\* The page-to-page climb of _gheap_sift_up (while hole_index > min_hole_index).
SiftUpPages(c, st, root_index, hole_index, it) ==
  LET page_size == c.page_chunks * c.fanout
      min_hole_index == root_index * page_size
      parent_index == (hole_index - 1) \div page_size
      base_index == parent_index * page_size + 1
  IN IF hole_index > min_hole_index
       THEN SiftUpPageParent(c,
              IF c.page_chunks > 1
                THEN SiftUpInPage(c, st, base_index, hole_index - base_index,
                       c.fanout, it)
                ELSE [st |-> st, hole |-> hole_index, end |-> FALSE],
              root_index, parent_index, it)
       ELSE [st |-> st, hole |-> hole_index, end |-> FALSE]

\* Mutant: the item is put into the hole it starts from.
sift_up_staying(c, st, root_index, hole_index, it) ==
  _gheap_move_item(st, hole_index, it)

\* The climb inside the page that holds the root (gheap.h:253-276), taken
\* when the page-to-page climb r1 did not end the sift.
SiftUpRootPage(c, r1, root_index, it) ==
  IF ~r1.end /\ c.page_chunks > 1 /\ r1.hole > root_index
    THEN LET page_size == c.page_chunks * c.fanout
             base_index == r1.hole - ((r1.hole - 1) % page_size)
             rel_min_hole_index == (root_index - base_index + 1) * c.fanout
         IN SiftUpInPage(c, r1.st, base_index, r1.hole - base_index,
              rel_min_hole_index, it)
    ELSE r1

\* Mutant: the item is not moved into the hole it was sifted to.
sift_up_end_without_item(r2, it) == r2.st

\* end: the item is moved into the hole the climb r2 stopped at.
SiftUpEnd(r2, it) == _gheap_move_item(r2.st, r2.hole, it)

\* Sifts the item up in the sub-heap with the given root_index starting from
\* hole_index; returns the threaded record.
_gheap_sift_up(c, st, root_index, hole_index, it) ==
  SiftUpEnd(SiftUpRootPage(c, SiftUpPages(c, st, root_index, hole_index, it),
                           root_index, it), it)

\* ---------------------------------------------------------------- sift down
RECURSIVE MaxChildLoop(_, _, _, _, _, _)
MaxChildLoop(c, a, first_child_index, children_count, i, max_child_index) ==
  IF i < children_count
    THEN LET child_index == first_child_index + i
         IN MaxChildLoop(c, a, first_child_index, children_count, i + 1,
              IF ~_gheap_less(c, a, child_index, max_child_index)
                THEN child_index ELSE max_child_index)
    ELSE max_child_index

\* Mutant: the scan for the maximum child starts at the third child.
max_child_index_from_third(c, a, first_child_index, children_count) ==
  MaxChildLoop(c, a, first_child_index, children_count, 2, first_child_index)

\* Mutant: of the children that hold a maximum, the first one is returned.
max_child_index_first_of_equals(c, a, first_child_index, children_count) ==
  first_child_index
    + Min({i \in 0..(children_count - 1) :
             \A k \in 0..(children_count - 1) :
               ~_gheap_less(c, a, first_child_index + i,
                            first_child_index + k)})

_gheap_get_max_child_index(c, a, first_child_index, children_count) ==
  MaxChildLoop(c, a, first_child_index, children_count, 1, first_child_index)

\* The slots _gheap_get_max_child_index compares (none for a single child).
TouchChildren(st, first_child_index, children_count) ==
  IF children_count > 1
    THEN Touch(st, first_child_index + children_count - 1) ELSE st

_gheap_is_child_fits_page(c, rel_hole_index) ==
  rel_hole_index < c.page_chunks - 1

_gheap_get_max_rel_child_index(c, a, base_index, children_count, rel_hole_index) ==
  LET first_rel_child_index == (rel_hole_index + 1) * c.fanout
      first_child_index == base_index + first_rel_child_index
  IN _gheap_get_max_child_index(c, a, first_child_index, children_count)

\* Result: [st, rel] (the new rel_hole_index).
_gheap_move_up_max_rel_child(c, st, base_index, children_count, rel_hole_index) ==
  LET max_child_index == _gheap_get_max_rel_child_index(c, st.a, base_index,
                           children_count, rel_hole_index)
      st1 == TouchChildren(st, base_index + (rel_hole_index + 1) * c.fanout,
                           children_count)
  IN [st |-> _gheap_move(st1, base_index + rel_hole_index, max_child_index),
      rel |-> max_child_index - base_index]

\* Mutant: the children of the hole inside its own page are not looked at.
max_child_index_without_current_page(c, a, hole_index, max_child_index) ==
  max_child_index

_gheap_get_max_child_index_in_current_page(c, a, hole_index, max_child_index) ==
  LET page_size == c.page_chunks * c.fanout
      base_index == hole_index - ((hole_index - 1) % page_size)
      rel_hole_index == hole_index - base_index
      max_child_index_tmp == _gheap_get_max_rel_child_index(c, a, base_index,
                               c.fanout, rel_hole_index)
  IN IF _gheap_is_child_fits_page(c, rel_hole_index)
          /\ _gheap_less(c, a, max_child_index, max_child_index_tmp)
       THEN max_child_index_tmp
       ELSE max_child_index

\* The slots _gheap_get_max_child_index_in_current_page compares.
TouchCurrentPage(c, st, hole_index, max_child_index) ==
  LET page_size == c.page_chunks * c.fanout
      base_index == hole_index - ((hole_index - 1) % page_size)
      rel_hole_index == hole_index - base_index
  IN IF _gheap_is_child_fits_page(c, rel_hole_index)
       THEN Touch(Touch(st, max_child_index),
                  base_index + (rel_hole_index + 1) * c.fanout + c.fanout - 1)
       ELSE st

\* _gheap_sift_down, "Sift down through full pages" (gheap.h:400-417).
\* Result: [st, hole].
RECURSIVE SiftDownFullPages(_, _, _, _)
SiftDownFullPages(c, st, n, hole_index) ==
  LET page_size == c.page_chunks * c.fanout
      full_pages_count == (n - 1) \div page_size
  IN IF hole_index < full_pages_count
       THEN LET first_child_index == hole_index * page_size + 1
                m1 == _gheap_get_max_child_index(c, st.a, first_child_index,
                        c.fanout)
                st1 == TouchChildren(st, first_child_index, c.fanout)
                m2 == IF c.page_chunks > 1
                        THEN _gheap_get_max_child_index_in_current_page(c,
                               st.a, hole_index, m1)
                        ELSE m1
                st2 == IF c.page_chunks > 1
                         THEN TouchCurrentPage(c, st1, hole_index, m1)
                         ELSE st1
            IN SiftDownFullPages(c, _gheap_move(st2, hole_index, m2), n, m2)
       ELSE [st |-> st, hole |-> hole_index]

\* _gheap_sift_down, "Sift down to the last page" (gheap.h:421-452).
SiftDownLastPage(c, st, n, hole_index) ==
  LET page_size == c.page_chunks * c.fanout
      full_pages_count == (n - 1) \div page_size
      first_child_index == hole_index * page_size + 1
      children_count == n - first_child_index
      cnt == IF c.page_chunks = 1 \/ children_count < c.fanout
               THEN children_count ELSE c.fanout
      m1 == _gheap_get_max_child_index(c, st.a, first_child_index, cnt)
      st1 == TouchChildren(st, first_child_index, cnt)
      m2 == IF c.page_chunks = 1 THEN m1
            ELSE _gheap_get_max_child_index_in_current_page(c, st.a,
                   hole_index, m1)
      st2 == IF c.page_chunks = 1 THEN st1
             ELSE TouchCurrentPage(c, st1, hole_index, m1)
  IN IF hole_index = full_pages_count /\ children_count > 0
       THEN [st |-> _gheap_move(st2, hole_index, m2), hole |-> m2]
       ELSE [st |-> st, hole |-> hole_index]

\* while (cond(rel_hole_index)) rel_hole_index = move_up_max_rel_child(...)
\* with fanout children: the loops at gheap.h:464-467 (full = TRUE, the
\* condition is _gheap_is_child_fits_page) and gheap.h:477-480 (full = FALSE,
\* the condition is rel_hole_index < full_page_nodes).
RECURSIVE SiftDownInPage(_, _, _, _, _, _)
SiftDownInPage(c, st, base_index, rel_hole_index, full, full_page_nodes) ==
  IF (IF full THEN _gheap_is_child_fits_page(c, rel_hole_index)
              ELSE rel_hole_index < full_page_nodes)
    THEN LET r == _gheap_move_up_max_rel_child(c, st, base_index, c.fanout,
                    rel_hole_index)
         IN SiftDownInPage(c, r.st, base_index, r.rel, full, full_page_nodes)
    ELSE [st |-> st, rel |-> rel_hole_index]

\* _gheap_sift_down, "Sift down through the last page" (gheap.h:454-497).
SiftDownThroughLastPage(c, st, n, hole_index) ==
  LET page_size == c.page_chunks * c.fanout
      base_index == hole_index - ((hole_index - 1) % page_size)
      rel_hole_index == hole_index - base_index
      rel_heap_size == n - base_index
      full_page_nodes == (rel_heap_size \div c.fanout) - 1
      r1 == SiftDownInPage(c, st, base_index, rel_hole_index, FALSE,
                           full_page_nodes)
      rel_child_index == (r1.rel + 1) * c.fanout
      children_count == rel_heap_size - rel_child_index
      r2 == IF r1.rel = full_page_nodes /\ rel_child_index < rel_heap_size
              THEN _gheap_move_up_max_rel_child(c, r1.st, base_index,
                     children_count, r1.rel)
              ELSE r1
      r == IF rel_heap_size >= page_size
             THEN SiftDownInPage(c, st, base_index, rel_hole_index, TRUE, 0)
             ELSE IF rel_heap_size > c.fanout
                    THEN r2
                    ELSE [st |-> st, rel |-> rel_hole_index]
  IN [st |-> r.st, hole |-> base_index + r.rel]

\* The descent of _gheap_sift_down (gheap.h:380-497): moves the maximum
\* children up along the path from hole_index to a leaf.  Result: [st, hole].
SiftDownHole(c, st, n, hole_index) ==
  LET cnt0 == IF n > c.fanout THEN c.fanout ELSE n - 1
      m0 == _gheap_get_max_child_index(c, st.a, 1, cnt0)
  IN (CHOOSE result \in
       {(CHOOSE result \in
          {(CHOOSE result \in
             {IF c.page_chunks > 1
                THEN SiftDownThroughLastPage(c, s3.st, n, s3.hole)
                ELSE s3
               : s3 \in {SiftDownLastPage(c,
                       s2.st, n, s2.hole)}} : TRUE)
            : s2 \in {SiftDownFullPages(c, s1.st, n, s1.hole)}} : TRUE)
         : s1 \in {IF c.page_chunks > 1 /\ hole_index = 0
                 THEN [st |-> _gheap_move(TouchChildren(st, 1, cnt0), 0, m0),
                       hole |-> m0]
                 ELSE [st |-> st, hole |-> hole_index]}} : TRUE)

\* Mutant: the item is dropped into the leaf hole, without the final sift up.
sift_down_without_sift_up(c, st, n, hole_index, it) ==
  IF n = 1
    THEN _gheap_move_item(st, 0, it)
    ELSE (CHOOSE result \in
           {_gheap_move_item(s.st, s.hole, it)
             : s \in {SiftDownHole(c, st, n, hole_index)}} : TRUE)

\* Sifts the given item down in the heap of size n starting from hole_index.
_gheap_sift_down(c, st, n, hole_index, it) ==
  IF n = 1
    THEN _gheap_move_item(st, 0, it)
    ELSE LET root_index == hole_index
         IN (CHOOSE result \in
              {_gheap_sift_up(c, s.st, root_index, s.hole, it)
                : s \in {SiftDownHole(c, st, n, hole_index)}} : TRUE)

\* ---------------------------------------------------------------- is_heap
\* for (i = 0; i < count; ++i) if (less(parent, child + i)) return child + i;
\* -1 when the loop finishes.
FirstLessChild(c, a, parent_index, child_index, count) ==
  LET bad == {i \in 0..(count - 1) :
                _gheap_less(c, a, parent_index, child_index + i)}
  IN IF bad = {} THEN -1 ELSE child_index + Min(bad)

\* The in-page loops of gheap_is_heap_until (gheap.h:545-554, 595-604):
\* result [ret, rel_child_index, rel_parent_index], ret = -1 when none found.
RECURSIVE IsHeapUntilInPage(_, _, _, _, _, _)
IsHeapUntilInPage(c, a, child_index, rel_child_index, rel_parent_index, limit) ==
  IF rel_child_index < limit
    THEN LET r == FirstLessChild(c, a, child_index + rel_parent_index,
                    child_index + rel_child_index, c.fanout)
         IN IF r # -1
              THEN [ret |-> r, rel_child_index |-> rel_child_index,
                    rel_parent_index |-> rel_parent_index]
              ELSE IsHeapUntilInPage(c, a, child_index,
                     rel_child_index + c.fanout, rel_parent_index + 1, limit)
    ELSE [ret |-> -1, rel_child_index |-> rel_child_index,
          rel_parent_index |-> rel_parent_index]

\* The full-pages loop of gheap_is_heap_until (gheap.h:532-559).
RECURSIVE IsHeapUntilFullPages(_, _, _, _, _)
IsHeapUntilFullPages(c, a, child_index, parent_index, last_full_page_index) ==
  LET page_size == c.page_chunks * c.fanout
  IN IF child_index < last_full_page_index
       THEN LET r1 == FirstLessChild(c, a, parent_index, child_index, c.fanout)
                r2 == IF c.page_chunks > 1
                        THEN IsHeapUntilInPage(c, a, child_index, c.fanout, 0,
                               page_size).ret
                        ELSE -1
            IN IF r1 # -1
                 THEN [ret |-> r1, child_index |-> child_index,
                       parent_index |-> parent_index]
                 ELSE IF r2 # -1
                        THEN [ret |-> r2, child_index |-> child_index,
                              parent_index |-> parent_index]
                        ELSE IsHeapUntilFullPages(c, a, child_index + page_size,
                               parent_index + 1, last_full_page_index)
       ELSE [ret |-> -1, child_index |-> child_index,
             parent_index |-> parent_index]

\* Mutant: the heap is walked as if a page held one chunk.
is_heap_until_unpaged(c, a, n) ==
  LET bad == {v \in 1..(n - 1) : _gheap_less(c, a, (v - 1) \div c.fanout, v)}
  IN IF bad = {} THEN n ELSE Min(bad)

\* The end of gheap_is_heap_until (gheap.h:606-617), g being what the loop
\* over the full chunks of the last page has left: the last page chunk, of
\* less than fanout items.
IsHeapUntilLastChunk(c, a, n, child_index, g) ==
  LET children_count == (n - child_index) - g.rel_child_index
  IN IF g.ret # -1 THEN g.ret
     ELSE (CHOOSE result \in
            {IF tail # -1 THEN tail ELSE n
              : tail \in {FirstLessChild(c, a,
                            child_index + g.rel_parent_index,
                            child_index + g.rel_child_index,
                            children_count)}} : TRUE)

\* gheap_is_heap_until on the last page (gheap.h:560-617), f being what the
\* loop over the full pages has left.
IsHeapUntilLastPage(c, a, n, f) ==
  LET rel_heap_size == n - f.child_index
      last_aligned_rel_index == rel_heap_size - (rel_heap_size % c.fanout)
  IN IF f.ret # -1 THEN f.ret
     ELSE IF rel_heap_size < c.fanout
       THEN (CHOOSE result \in
              {IF short # -1 THEN short ELSE n
                : short \in {FirstLessChild(c, a, f.parent_index,
                               f.child_index, rel_heap_size)}} : TRUE)
     ELSE (CHOOSE result \in
            {IF inter # -1 THEN inter
             ELSE IF c.page_chunks > 1
               THEN IsHeapUntilLastChunk(c, a, n, f.child_index,
                      IsHeapUntilInPage(c, a, f.child_index, c.fanout, 0,
                                        last_aligned_rel_index))
             ELSE n
              : inter \in {FirstLessChild(c, a, f.parent_index,
                             f.child_index, c.fanout)}} : TRUE)

gheap_is_heap_until(c, a, n) ==
  LET page_size == c.page_chunks * c.fanout
  IN IF n < 2 THEN n
     ELSE IsHeapUntilLastPage(c, a, n,
            IsHeapUntilFullPages(c, a, 1, 0, n - ((n - 1) % page_size)))

gheap_is_heap(c, a, n) == gheap_is_heap_until(c, a, n) = n

\* ---------------------------------------------------------------- heap API
\* The do-while of gheap_make_heap: sift down slots i, i-1, ..., 0.
RECURSIVE MakeHeapLoop(_, _, _, _)
MakeHeapLoop(c, st, n, i) ==
  LET tmp == _gheap_get_item_ptr(st.a, i)
  IN (CHOOSE result \in
       {IF i > 0 THEN MakeHeapLoop(c, st1, n, i - 1) ELSE st1
         : st1 \in {_gheap_sift_down(c, Touch(st, i), n, i, tmp)}} : TRUE)

gheap_make_heap(c, st, n) ==
  IF n > 1
    THEN MakeHeapLoop(c, st, n,
           IF c.page_chunks = 1 THEN (n - 2) \div c.fanout ELSE n - 2)
    ELSE st

\* Mutant: the new item is left in the last slot.
push_heap_without_sift_up(c, st, n) == st

\* Mutant: a heap of two items is taken for a heap of one.
push_heap_skipping_two(c, st, n) ==
  IF n > 2
    THEN LET u == n - 1
             tmp == _gheap_get_item_ptr(st.a, u)
         IN _gheap_sift_up(c, Touch(st, u), 0, u, tmp)
    ELSE st

\* Mutant: the item pushed is the one after the window, a[n].
push_heap_past_end(c, st, n) ==
  IF n > 1
    THEN LET u == n
             tmp == _gheap_get_item_ptr(st.a, u)
         IN _gheap_sift_up(c, Touch(st, u), 0, u, tmp)
    ELSE st

gheap_push_heap(c, st, n) ==
  IF n > 1
    THEN LET u == n - 1
             tmp == _gheap_get_item_ptr(st.a, u)
         IN _gheap_sift_up(c, Touch(st, u), 0, u, tmp)
    ELSE st

\* Mutant: the maximum item is not moved out into the item slot.
swap_max_item_without_output(c, st, n, item_index) ==
  LET tmp == _gheap_get_item_ptr(st.a, item_index)
  IN _gheap_sift_down(c, Touch(st, item_index), n, 0, tmp)

\* Swaps the item in slot item_index (a slot outside the heap) with the
\* maximum item of the heap and restores the heap invariant.
gheap_swap_max_item(c, st, n, item_index) ==
  LET tmp == _gheap_get_item_ptr(st.a, item_index)
      st1 == _gheap_move(Touch(st, item_index), item_index, 0)
  IN _gheap_sift_down(c, st1, n, 0, tmp)

\* Mutant: the slot that receives the maximum stays inside the heap.
pop_max_item_into_heap(c, st, n) == gheap_swap_max_item(c, st, n + 1, n)

\* Pops the maximum item of the heap base[0..n-1] into base[n].
_gheap_pop_max_item(c, st, n) == gheap_swap_max_item(c, st, n, n)

\* Mutant: the maximum is not moved to the last slot of the window.
pop_heap_without_output(c, st, n) ==
  IF n > 1 THEN swap_max_item_without_output(c, st, n - 1, n - 1) ELSE st

gheap_pop_heap(c, st, n) ==
  IF n > 1 THEN _gheap_pop_max_item(c, st, n - 1) ELSE st

\* Mutant: the loop stops one window early (i > 2).
RECURSIVE sort_heap_stopping_early(_, _, _)
sort_heap_stopping_early(c, st, i) ==
  IF i > 2
    THEN (CHOOSE result \in
           {sort_heap_stopping_early(c, st1, i - 1)
             : st1 \in {_gheap_pop_max_item(c, st, i - 1)}} : TRUE)
    ELSE st

\* for (i = heap_size; i > 1; --i) _gheap_pop_max_item(ctx, base, i - 1);
RECURSIVE gheap_sort_heap(_, _, _)
gheap_sort_heap(c, st, i) ==
  IF i > 1
    THEN (CHOOSE result \in
           {gheap_sort_heap(c, st1, i - 1)
             : st1 \in {_gheap_pop_max_item(c, st, i - 1)}} : TRUE)
    ELSE st

\* Mutant: the increased item is sifted down instead of up.
restore_after_increase_sifting_down(c, st, n, modified_item_index) ==
  LET tmp == _gheap_get_item_ptr(st.a, modified_item_index)
  IN _gheap_sift_down(c, Touch(st, modified_item_index), n,
                      modified_item_index, tmp)

gheap_restore_heap_after_item_increase(c, st, n, modified_item_index) ==
  IF modified_item_index > 0
    THEN LET tmp == _gheap_get_item_ptr(st.a, modified_item_index)
         IN _gheap_sift_up(c, Touch(st, modified_item_index), 0,
                           modified_item_index, tmp)
    ELSE st

\* Mutant: the decreased item is sifted down from the root of the heap.
restore_after_decrease_from_root(c, st, n, modified_item_index) ==
  LET tmp == _gheap_get_item_ptr(st.a, modified_item_index)
  IN _gheap_sift_down(c, Touch(st, modified_item_index), n, 0, tmp)

gheap_restore_heap_after_item_decrease(c, st, n, modified_item_index) ==
  LET tmp == _gheap_get_item_ptr(st.a, modified_item_index)
  IN _gheap_sift_down(c, Touch(st, modified_item_index), n,
                      modified_item_index, tmp)

\* Mutant: the former last item is always sifted down.
remove_from_heap_always_down(c, st, n, item_index) ==
  LET new_heap_size == n - 1
      tmp == _gheap_get_item_ptr(st.a, new_heap_size)
      st1 == _gheap_move(st, new_heap_size, item_index)
  IN IF item_index < new_heap_size
       THEN _gheap_sift_down(c, st1, new_heap_size, item_index, tmp)
       ELSE st

\* Mutant: the removed item is moved to the last slot even when it is there.
remove_from_heap_moving_last(c, st, n, item_index) ==
  LET new_heap_size == n - 1
      tmp == _gheap_get_item_ptr(st.a, new_heap_size)
      st1 == _gheap_move(st, new_heap_size, item_index)
      hole == _gheap_get_item_ptr(st1.a, new_heap_size)
  IN IF item_index < new_heap_size
       THEN IF ctx_less_comparer(c, tmp, hole)
              THEN _gheap_sift_down(c, st1, new_heap_size, item_index, tmp)
              ELSE _gheap_sift_up(c, st1, 0, item_index, tmp)
       ELSE st1

gheap_remove_from_heap(c, st, n, item_index) ==
  LET new_heap_size == n - 1
      tmp == _gheap_get_item_ptr(st.a, new_heap_size)
      st1 == _gheap_move(st, new_heap_size, item_index)
      hole == _gheap_get_item_ptr(st1.a, new_heap_size)
  IN IF item_index < new_heap_size
       THEN IF ctx_less_comparer(c, tmp, hole)
              THEN _gheap_sift_down(c, st1, new_heap_size, item_index, tmp)
              ELSE _gheap_sift_up(c, st1, 0, item_index, tmp)
       ELSE st

\* ---------------------------------------------------------------- galgorithm
\* Mutant: the heap is built and left as it is (gheap_sort_heap is not run).
heapsort_leaving_heap(c, st, n) == gheap_make_heap(c, st, n)

galgorithm_heapsort(c, st, n) ==
  (CHOOSE result \in
    {gheap_sort_heap(c, st1, n)
      : st1 \in {gheap_make_heap(c, st, n)}} : TRUE)

\* for (i = middle_index; i < n; ++i)
\*   if (less_comparer(base[i], base[0])) gheap_swap_max_item(.., &base[i]);
RECURSIVE PartialSortLoop(_, _, _, _, _)
PartialSortLoop(c, st, n, middle_index, i) ==
  IF i < n
    THEN (CHOOSE result \in
           {PartialSortLoop(c, st1, n, middle_index, i + 1)
             : st1 \in {IF _gheap_less(c, st.a, i, 0)
                     THEN gheap_swap_max_item(c, st, middle_index, i)
                     ELSE Touch(st, i)}} : TRUE)
    ELSE st

\* Mutant: the items after middle_index are never swapped into the heap.
partial_sort_without_swaps(c, st, n, middle_index) ==
  IF middle_index > 0
    THEN (CHOOSE result \in
           {gheap_sort_heap(c, st1, middle_index)
             : st1 \in {gheap_make_heap(c, st, middle_index)}} : TRUE)
    ELSE st

galgorithm_partial_sort(c, st, n, middle_index) ==
  IF middle_index > 0
    THEN (CHOOSE result \in
           {(CHOOSE result \in
              {gheap_sort_heap(c, st2, middle_index)
                : st2 \in {PartialSortLoop(c, st1, n,
                        middle_index, middle_index)}} : TRUE)
             : st1 \in {gheap_make_heap(c, st, middle_index)}} : TRUE)
    ELSE st

\* ---------------------------------------------------------------- gheap_c.c
\* size_t is SizeBits wide: SIZE_MAX, and the value an expression is cut to.
SIZE_MAX == 2 ^ SizeBits - 1

\* A run that grows by a factor of two or more each pass passes SIZE_MAX
\* within SizeBits passes.
MaxPasses == SizeBits + 2

Wrap(x) == x % (SIZE_MAX + 1)

\* Mutant: the parent is computed as if a page held one chunk.
get_parent_index_unpaged(nd, fanout, page_chunks, u0) ==
  IF u0 = 0 /\ ~nd THEN -1 ELSE Wrap(u0 - 1) \div fanout

\* gheap_c.c _get_parent_index.  nd is the build: with NDEBUG the asserts
\* are compiled out, without it a failing assert ends the program and the
\* call has no value (-1).
_get_parent_index(nd, fanout, page_chunks, u0) ==
  IF u0 = 0 /\ ~nd
    THEN -1
    ELSE LET u == Wrap(u0 - 1)
             page_size == Wrap(fanout * page_chunks)
             v == u % page_size
             v1 == Wrap(u \div page_size - 1)
             page_leaves == Wrap((fanout - 1) * page_chunks + 1)
             u1 == Wrap(v1 \div page_leaves + 1)
         IN IF page_chunks = 1 THEN u \div fanout
            ELSE IF u < fanout THEN 0
            ELSE IF v >= fanout THEN Wrap(u - v + v \div fanout)
            ELSE Wrap(u1 * page_size + (v1 % page_leaves) - page_leaves + 1)

\* Mutant: the first child is computed as if a page held one chunk.
get_child_index_unpaged(nd, fanout, page_chunks, u0) ==
  IF u0 = SIZE_MAX /\ ~nd
    THEN -1
    ELSE IF u0 > (SIZE_MAX - 1) \div fanout
           THEN SIZE_MAX
           ELSE Wrap(u0 * fanout + 1)

\* Mutant: the slow path multiplies without its overflow check.
get_child_index_unchecked(nd, fanout, page_chunks, u0) ==
  IF u0 = SIZE_MAX /\ ~nd
    THEN -1
    ELSE IF page_chunks = 1
      THEN IF u0 > (SIZE_MAX - 1) \div fanout
             THEN SIZE_MAX
             ELSE Wrap(u0 * fanout + 1)
    ELSE IF u0 = 0
      THEN 1
    ELSE LET page_size == Wrap(fanout * page_chunks)
             u == Wrap(u0 - 1)
             v == (u % page_size) + 1
             v_fast == Wrap(v * (fanout - 1))
             page_leaves == Wrap((fanout - 1) * page_chunks + 1)
             v_slow == Wrap(v + (u \div page_size + 1) * page_leaves - page_size)
         IN IF v < page_size \div fanout
              THEN IF u > Wrap(SIZE_MAX - 2 - v_fast)
                     THEN SIZE_MAX
                     ELSE Wrap(u + v_fast + 2)
              ELSE Wrap(v_slow * page_size + 1)

\* gheap_c.c _get_child_index: the index of the first child, SIZE_MAX if it
\* cannot fit size_t.
_get_child_index(nd, fanout, page_chunks, u0) ==
  IF u0 = SIZE_MAX /\ ~nd
    THEN -1
    ELSE IF page_chunks = 1
      THEN IF u0 > (SIZE_MAX - 1) \div fanout
             THEN SIZE_MAX
             ELSE Wrap(u0 * fanout + 1)
    ELSE IF u0 = 0
      THEN 1
    ELSE LET page_size == Wrap(fanout * page_chunks)
             u == Wrap(u0 - 1)
             v == (u % page_size) + 1
             v_fast == Wrap(v * (fanout - 1))
             page_leaves == Wrap((fanout - 1) * page_chunks + 1)
             v_slow == Wrap(v + (u \div page_size + 1) * page_leaves - page_size)
         IN IF v < page_size \div fanout
              THEN IF u > Wrap(SIZE_MAX - 2 - v_fast)
                     THEN SIZE_MAX
                     ELSE Wrap(u + v_fast + 2)
              ELSE IF v_slow > (SIZE_MAX - 1) \div page_size
                     THEN SIZE_MAX
                     ELSE Wrap(v_slow * page_size + 1)

\* gheap_c.c gheap_is_heap_until: the first u in 1..heap_size-1 whose item is
\* greater than its parent's, heap_size if there is none.
gheap_c_is_heap_until(c, a, n) ==
  LET bad == {u \in 1..(n - 1) :
                less_comparer(c,
                  a[_get_parent_index(FALSE, c.fanout, c.page_chunks, u)],
                  a[u])}
  IN IF bad = {} THEN n ELSE Min(bad)

gheap_c_is_heap(c, a, n) == gheap_c_is_heap_until(c, a, n) = n

\* The for loop of gheap_c.c _move_up_max_child: j, the offset of the child
\* that holds max_child, once the children i, i + 1, ... have been looked at.
RECURSIVE MoveUpMaxChildLoop(_, _, _, _, _, _)
MoveUpMaxChildLoop(c, a, children_count, child_index, i, j) ==
  IF i < children_count
    THEN MoveUpMaxChildLoop(c, a, children_count, child_index, i + 1,
           IF ~ctx_less_comparer(c, a[child_index + i], a[child_index + j])
             THEN i ELSE j)
    ELSE j

\* gheap_c.c _move_up_max_child: copies the maximum of the children
\* child_index, ..., child_index + children_count - 1 into the hole; the
\* buffer and the index of the new hole.
_move_up_max_child(c, a, children_count, hole_index, child_index) ==
  [a |-> [a EXCEPT ![hole_index] =
            a[child_index + MoveUpMaxChildLoop(c, a, children_count,
                                               child_index, 1, 0)]],
   hole |-> child_index
              + MoveUpMaxChildLoop(c, a, children_count, child_index, 1, 0)]

\* One turn of the while (1) of gheap_c.c _sift_down on a heap of n items:
\* the children of the hole are the fanout slots from _get_child_index on,
\* or the remaining_items slots that end the heap; no child, no move.
SiftDownTurn(c, a, n, hole_index) ==
  LET remaining_items == (n - 1) % c.fanout
      child_index == _get_child_index(TRUE, c.fanout, c.page_chunks,
                                      hole_index)
  IN IF child_index >= n - remaining_items
       THEN IF child_index < n
              THEN _move_up_max_child(c, a, remaining_items, hole_index,
                                      child_index)
              ELSE [a |-> a, hole |-> hole_index]
       ELSE _move_up_max_child(c, a, c.fanout, hole_index, child_index)

\* ---------------------------------------------------------------- n-way merge
\* tests.c nway_input_next: advances the context unless it is at its end.
nway_input_next(h) ==
  IF h.next < h.end THEN [h EXCEPT !.next = h.next + 1] ELSE h

\* An input whose next() has returned 0 (or would): nothing is left in it.
Exhausted(h) == ~(h.next < h.end)

\* The contexts in the slots 0..top of a that are exhausted (a slot past the
\* array counts as one): top is the highest slot a heap step has read, and
\* every context the step's comparer calls get() on comes from those slots.
LateSlots(a, top) ==
  Cardinality({i \in 0..top : IF i \in DOMAIN a THEN Exhausted(a[i]) ELSE TRUE})

\* Mutant: the second context is copied over the first and left where it is.
swap_items_copying_one_way(a, a_index, b_index) ==
  [a EXCEPT ![a_index] = a[b_index]]

\* Mutant: the two contexts stay where they are.
swap_items_not_swapping(a, a_index, b_index) == a

\* galgorithm.h _galgorithm_swap_items: tmp = a; a = b; b = tmp.
_galgorithm_swap_items(a, a_index, b_index) ==
  [a EXCEPT ![a_index] = a[b_index], ![b_index] = a[a_index]]

\* The while (1) of galgorithm_nway_merge on the record
\* m = [a, inputs_count, out, late, self]: the contexts, the number of them
\* still in the heap, the items put so far, the number of get() and next()
\* calls made on an exhausted input, and whether the context mover was given
\* the same slot as source and destination (by a heap step, or by
\* _galgorithm_swap_items(ctx, base, 0, inputs_count) swapping slot 0 with
\* itself).
RECURSIVE NwayMergeLoop(_, _)
NwayMergeLoop(c, m) ==
  LET top_input == m.a[0]
      data == nway_input_get(c.mem, top_input)
      put == Append(m.out, data)
      calls == m.late + (IF Exhausted(top_input) THEN 2 ELSE 0)
      advanced == nway_input_next(top_input)
      a1 == [m.a EXCEPT ![0] = advanced]
      more == advanced.next < advanced.end
      inputs_count == IF more THEN m.inputs_count ELSE m.inputs_count - 1
      a2 == IF more THEN a1 ELSE _galgorithm_swap_items(a1, 0, inputs_count)
  IN IF ~more /\ inputs_count = 0
       THEN [a |-> a1, inputs_count |-> 0, out |-> put, late |-> calls,
             self |-> m.self]
       ELSE (CHOOSE result \in
              {NwayMergeLoop(c,
                 [a |-> st.a, inputs_count |-> inputs_count, out |-> put,
                  late |-> calls + LateSlots(a2, st.top),
                  self |-> m.self \/ st.self
                             \/ (~more /\ inputs_count = 0)])
                : st \in {gheap_restore_heap_after_item_decrease(c, NewSt(a2),
                        inputs_count, 0)}} : TRUE)

\* galgorithm_nway_merge(ctx, input, output): inputs are the input contexts,
\* mem the memory they point into; the heap of contexts is ordered by
\* _galgorithm_nway_less_comparer under the caller's shape.
galgorithm_nway_merge(c, mem, inputs) ==
  LET nway_ctx == [fanout |-> c.fanout, page_chunks |-> c.page_chunks,
                   inv |-> c.inv, mem |-> mem]
  IN (CHOOSE result \in
       {NwayMergeLoop(nway_ctx,
          [a |-> st.a, inputs_count |-> Size(inputs), out |-> << >>,
           late |-> LateSlots(inputs, st.top), self |-> st.self])
         : st \in {gheap_make_heap(nway_ctx, NewSt(inputs), Size(inputs))}} : TRUE)

\* ---------------------------------------------------------------- n-way mergesort
\* Each input range holds items sorted in ascending order.
SortedInput(c, mem, h) ==
  \A j \in (h.next + 1)..(h.end - 1) : ~less_comparer(c, mem[j], mem[j - 1])

\* galgorithm.hpp.  A range is the array a[0..n); an iterator is an index.

\* galgorithm::nway_merge: the same steps as galgorithm_nway_merge, a pair
\* (first, second) of iterators for an input context; late counts the
\* comparisons and reads of a pair with first = second.
nway_merge(c, mem, inputs) == galgorithm_nway_merge(c, mem, inputs)

Swapped(a, i, j) == [a EXCEPT ![i] = a[j], ![j] = a[i]]

\* The inner loop of the insertion sort: the item at hole goes down while it
\* is less than the one before it.
RECURSIVE InsertionHole(_, _, _, _)
InsertionHole(c, a, first, hole) ==
  IF hole # first /\ less_comparer(c, a[hole], a[hole - 1])
  THEN InsertionHole(c, Swapped(a, hole, hole - 1), first, hole - 1)
  ELSE a

RECURSIVE InsertionLoop(_, _, _, _, _)
InsertionLoop(c, a, first, it, last) ==
  IF it = last THEN a
  ELSE InsertionLoop(c, InsertionHole(c, a, first, it), first, it + 1, last)

\* Mutant: the last item of the range is left where it is.
small_range_sorter_short(c, a, first, last) ==
  InsertionLoop(c, a, first, first + 1, IF last - first > 1 THEN last - 1 ELSE last)

\* Sorts a[first..last) by insertion; the callers give first < last.
_std_small_range_sorter(c, a, first, last) ==
  InsertionLoop(c, a, first, first + 1, last)

\* Step 1: the runs of small_range_size items are sorted one by one, then the
\* shorter last run if there is one.
RECURSIVE SortSmallRanges(_, _, _, _, _, _)
SortSmallRanges(c, a, it, it_last, last, small_range_size) ==
  IF it # it_last
  THEN SortSmallRanges(c, _std_small_range_sorter(c, a, it, it + small_range_size),
                       it + small_range_size, it_last, last, small_range_size)
  ELSE IF it < last THEN _std_small_range_sorter(c, a, it, last) ELSE a

\* count consecutive subranges of subrange_size items starting at it.
Subranges(it, count, subrange_size) ==
  [i \in 0..(count - 1) |->
     [next |-> it + i * subrange_size, end |-> it + (i + 1) * subrange_size]]

RunsSorted(c, a, inputs) == \A i \in DOMAIN inputs : SortedInput(c, a, inputs[i])

\* One nway_merge of a pass: p is [put, groups, late, sorted], the items put
\* into the temporary buffer so far, the number of runs of every merge, the
\* late calls, and whether every run merged was sorted.
Merged(c, a, p, inputs) ==
  CHOOSE result \in
    {[put |-> p.put \o m.out,
      groups |-> Append(p.groups, Size(inputs)),
      late |-> p.late + m.late,
      sorted |-> p.sorted /\ RunsSorted(c, a, inputs)]
       : m \in {nway_merge(c, a, inputs)}} : TRUE

\* The full subrange tuples of a pass.
RECURSIVE MergeFullTuples(_, _, _, _, _, _, _)
MergeFullTuples(c, a, p, it, it_last, subrange_size, subranges_count) ==
  IF it # it_last
  THEN MergeFullTuples(c, a,
         Merged(c, a, p, Subranges(it, subranges_count, subrange_size)),
         it + subrange_size * subranges_count, it_last, subrange_size,
         subranges_count)
  ELSE p

\* The tail subrange tuple of a pass: the full subranges left, then the
\* shorter tail if there is one.  The failing assertion gives groups <<-1>>.
MergeTailTuple(c, a, p, it, last, subrange_size, subranges_count) ==
  LET full_subranges_count == (last - it) \div subrange_size
      full == Subranges(it, full_subranges_count, subrange_size)
      it1 == it + full_subranges_count * subrange_size
      inputs == IF it1 < last
                THEN [i \in 0..full_subranges_count |->
                        IF i < full_subranges_count THEN full[i]
                        ELSE [next |-> it1, end |-> last]]
                ELSE full
  IN IF full_subranges_count < subranges_count
     THEN Merged(c, a, p, inputs)
     ELSE [p EXCEPT !.groups = <<-1>>]

\* One pass of step 2 over a[0..range_size).
MergePass(c, a, range_size, subrange_size, subranges_count) ==
  LET p0 == [put |-> << >>, groups |-> << >>, late |-> 0, sorted |-> TRUE]
      tuples == subrange_size <= range_size \div subranges_count
      subrange_tuple_size == subrange_size * subranges_count
      it_last == range_size - (range_size % subrange_tuple_size)
      it == IF tuples THEN it_last ELSE 0
  IN CHOOSE result \in
       {IF it < range_size
          THEN MergeTailTuple(c, a, p1, it, range_size, subrange_size,
                              subranges_count)
          ELSE p1
         : p1 \in {IF tuples
                     THEN MergeFullTuples(c, a, p0, 0, it_last, subrange_size,
                                          subranges_count)
                     ELSE p0}} : TRUE

\* Step 2: the passes; the temporary buffer is copied back after each (a slot
\* of it that no merge wrote reads as -1).
RECURSIVE MergePasses(_, _, _, _)
MergePasses(c, ms, range_size, subrange_size) ==
  CHOOSE result \in
    {IF subrange_size > range_size \div ms.subranges_count
       THEN ms1
       ELSE MergePasses(c, ms1, range_size, subrange_size * ms.subranges_count)
      : ms1 \in
          {[ms EXCEPT
              !.a = [i \in 0..(range_size - 1) |->
                       IF i < Len(p.put) THEN p.put[i + 1] ELSE -1],
              !.passes = Append(@, [subrange_size |-> subrange_size,
                                    groups |-> p.groups]),
              !.late = @ + p.late,
              !.sorted = @ /\ p.sorted]
            : p \in {MergePass(c, ms.a, range_size, subrange_size,
                               ms.subranges_count)}}} : TRUE

\* nway_mergesort(first, last, less_comparer, small_range_sorter,
\* small_range_size, subranges_count) over a[0..range_size).
nway_mergesort(c, a, range_size, small_range_size, subranges_count) ==
  LET it_last == range_size - (range_size % small_range_size)
      a1 == SortSmallRanges(c, a, 0, it_last, range_size, small_range_size)
  IN MergePasses(c,
       [a |-> a1, small_range_size |-> small_range_size,
        subranges_count |-> subranges_count, passes |-> << >>, late |-> 0,
        sorted |-> TRUE],
       range_size, small_range_size)

\* ---------------------------------------------------------------- run sizes
\* The size arithmetic of nway_mergesort (galgorithm.hpp), without the items:
\* iterators are offsets from first, the sizes are size_t.

\* Step 1: the ranges [first, last) small_range_sorter is called on: one
\* for every it from first in steps of small_range_size up to it_last, and
\* the one from it_last if it < last.
SorterRanges(it_last, last, small_range_size) ==
  {[first |-> it, last |-> it + small_range_size]
     : it \in {x \in 0..(it_last - 1) : x % small_range_size = 0}}
  \cup (IF it_last < last
          THEN {[first |-> it_last, last |-> last]} ELSE {})

\* The full subrange tuples of a pass, from it on: one nway_merge of
\* subranges_count runs for each, until it meets it_last; [it, groups], with
\* it = -1 if it has run past the end of the range without meeting it_last.
RECURSIVE FullTupleRuns(_, _, _, _, _, _)
FullTupleRuns(it, it_last, range_size, subrange_size, subranges_count, groups) ==
  IF it = it_last THEN [it |-> it, groups |-> groups]
  ELSE IF it > range_size THEN [it |-> -1, groups |-> groups]
  ELSE FullTupleRuns(it + subrange_size * subranges_count, it_last,
         range_size, subrange_size, subranges_count,
         Append(groups, subranges_count))

\* The tail subrange tuple from it on: the number of runs its nway_merge
\* gets and the size of the shortest of them; asserted is FALSE when
\* assert(full_subranges_count < subranges_count) fails.
TailTupleRuns(f, range_size, subrange_size, subranges_count) ==
  LET full_subranges_count == (range_size - f.it) \div subrange_size
      rest == (range_size - f.it) % subrange_size
  IN IF f.it >= 0 /\ f.it < range_size
       THEN [groups |-> Append(f.groups,
                          full_subranges_count + (IF rest > 0 THEN 1 ELSE 0)),
             shortest |-> IF rest > 0 THEN rest ELSE subrange_size,
             asserted |-> full_subranges_count < subranges_count,
             overrun |-> FALSE]
       ELSE [groups |-> f.groups, shortest |-> subrange_size,
             asserted |-> TRUE, overrun |-> f.it < 0]

\* Mutant: the size of a tuple is computed before the test that guards it.
run_pass_unguarded(range_size, subrange_size, subranges_count) ==
  LET tuples == subrange_size <= range_size \div subranges_count
      subrange_tuple_size == Wrap(subrange_size * subranges_count)
      it_last == range_size - (range_size % subrange_tuple_size)
  IN CHOOSE result \in
       {[subrange_size |-> subrange_size,
         tuple_size |-> subrange_tuple_size,
         groups |-> t.groups, shortest |-> t.shortest,
         asserted |-> t.asserted, overrun |-> t.overrun]
         : t \in {TailTupleRuns(
                    IF tuples
                      THEN FullTupleRuns(0, it_last, range_size,
                             subrange_size, subranges_count, << >>)
                      ELSE [it |-> 0, groups |-> << >>],
                    range_size, subrange_size, subranges_count)}} : TRUE

\* One pass of step 2 with runs of subrange_size items: the product
\* subrange_size * subranges_count if the pass computes it (0 if not), the
\* number of runs of each nway_merge, the size of the shortest run.
RunPass(range_size, subrange_size, subranges_count) ==
  LET tuples == subrange_size <= range_size \div subranges_count
      subrange_tuple_size == Wrap(subrange_size * subranges_count)
      it_last == range_size - (range_size % subrange_tuple_size)
  IN CHOOSE result \in
       {[subrange_size |-> subrange_size,
         tuple_size |-> IF tuples THEN subrange_tuple_size ELSE 0,
         groups |-> t.groups, shortest |-> t.shortest,
         asserted |-> t.asserted, overrun |-> t.overrun]
         : t \in {TailTupleRuns(
                    IF tuples
                      THEN FullTupleRuns(0, it_last, range_size,
                             subrange_size, subranges_count, << >>)
                      ELSE [it |-> 0, groups |-> << >>],
                    range_size, subrange_size, subranges_count)}} : TRUE

\* The for (;;) of step 2: the passes made, and whether the loop has left
\* through its break (it is cut off after MaxPasses passes).
RECURSIVE RunPasses(_, _, _, _)
RunPasses(range_size, subrange_size, subranges_count, passes) ==
  IF Len(passes) >= MaxPasses
    THEN [passes |-> passes, done |-> FALSE]
    ELSE IF subrange_size > range_size \div subranges_count
      THEN [passes |-> Append(passes, RunPass(range_size, subrange_size,
                                              subranges_count)),
            done |-> TRUE]
      ELSE RunPasses(range_size, Wrap(subrange_size * subranges_count),
             subranges_count,
             Append(passes, RunPass(range_size, subrange_size,
                                    subranges_count)))

\* nway_mergesort on a range of range_size items: the sorter's ranges and
\* the passes.
nway_mergesort_runs(range_size, small_range_size, subranges_count) ==
  [sorter |-> SorterRanges(range_size - (range_size % small_range_size),
                           range_size, small_range_size),
   merges |-> RunPasses(range_size, small_range_size, subranges_count, << >>)]

\* ---------------------------------------------------------------- priority queue
\* The queue is the record [state, a, size] (the buffer a holds the slots
\* 0..size-1) together with what an observer has counted: n0 elements given
\* at creation, pushes, pops, the elements that entered (how many of each
\* item), the elements the deleter was called on, and for a pop the top before
\* it (prev_top) and the element it deleted (last_deleted); -1 is none.
NoItems == [v \in Items |-> 0]

ItemsOf(a, n) == [v \in Items |-> Cardinality({i \in 0..(n - 1) : a[i] = v})]

\* create(ctx, deleter): an empty queue.
gpriority_queue_create ==
  [state |-> "live", a |-> << >>, size |-> 0, n0 |-> 0, pushes |-> 0,
   pops |-> 0, entered |-> NoItems, deleted |-> NoItems, prev_top |-> -1,
   last_deleted |-> -1]

\* create_from_array(ctx, deleter, a, n): takes a[0..n) and heapifies it.
gpriority_queue_create_from_array(c, a, n) ==
  [state |-> "live", a |-> gheap_make_heap(c, NewSt(a), n).a, size |-> n,
   n0 |-> n, pushes |-> 0, pops |-> 0, entered |-> ItemsOf(a, n),
   deleted |-> NoItems, prev_top |-> -1, last_deleted |-> -1]

gpriority_queue_size(q) == q.size

gpriority_queue_empty(q) == q.size = 0

\* top(): a[0]; the queue must not be empty.
gpriority_queue_top(q) == q.a[0]

\* push(x): a copy of x is appended at a[size], size grows, push_heap.
gpriority_queue_push(c, q, x) ==
  LET a1 == [i \in 0..q.size |-> IF i < q.size THEN q.a[i] ELSE x]
  IN [q EXCEPT !.a = gheap_push_heap(c, NewSt(a1), q.size + 1).a,
               !.size = q.size + 1,
               !.pushes = @ + 1,
               !.entered = [@ EXCEPT ![x] = @ + 1],
               !.prev_top = -1,
               !.last_deleted = -1]

\* pop(): pop_heap, size shrinks, the deleter is called on a[size].
gpriority_queue_pop(c, q) ==
  LET a1 == gheap_pop_heap(c, NewSt(q.a), q.size).a
      removed == a1[q.size - 1]
  IN [q EXCEPT !.a = [i \in 0..(q.size - 2) |-> a1[i]],
               !.size = q.size - 1,
               !.pops = @ + 1,
               !.deleted = [@ EXCEPT ![removed] = @ + 1],
               !.prev_top = gpriority_queue_top(q),
               !.last_deleted = removed]

\* destroy(): the deleter is called on every element of a[0..size), the
\* buffer is released.
gpriority_queue_delete(q) ==
  [q EXCEPT !.state = "destroyed",
            !.a = << >>,
            !.size = 0,
            !.deleted = [v \in Items |-> @[v] + ItemsOf(q.a, q.size)[v]],
            !.prev_top = -1,
            !.last_deleted = -1]

\* ---------------------------------------------------------------- machine
Shapes == [fanout : 1..MaxFanout, page_chunks : 1..MaxChunks, inv : BOOLEAN]

Arrays == UNION {[0..(n - 1) -> Items] : n \in 0..MaxN}

\* The locals of the tests.c drivers while no call is being examined.
NoCall ==
  /\ op = "none"
  /\ pre = << >>
  /\ pre_size = 0
  /\ pre_item = 0
  /\ item = 0
  /\ arg = 0
  /\ ctxs = << >>
  /\ out = << >>
  /\ late = 0
  /\ links = << >>
  /\ heap_until = << >>
  /\ queue = << >>
  /\ mergesort = << >>
  /\ probe = << >>

\* tests.c: init_array fills a buffer of n items; no heap exists yet.
Init ==
  /\ ctx \in Shapes
  /\ base \in Arrays
  /\ heap_size = 0
  /\ node = 0
  /\ NoCall

\* A driver makes its next call once it has checked the last one.
Idle == op = "none"

\* What a driver keeps of a call until it has checked the result: the
\* buffer and the heap size the operation was called on and its index
\* argument (tests.c: `const int item = a[item_index]' before the call).
Called(name, a, i) ==
  /\ op' = name
  /\ pre' = a
  /\ pre_size' = heap_size
  /\ arg' = i
  /\ UNCHANGED others

\* The driver has checked the result of the last call (the asserts after
\* each call in tests.c) and goes on to its next call.
Checked ==
  /\ op # "none"
  /\ op' = "none"
  /\ pre' = << >>
  /\ pre_size' = 0
  /\ pre_item' = 0
  /\ item' = 0
  /\ arg' = 0
  /\ ctxs' = << >>
  /\ out' = << >>
  /\ late' = 0
  /\ links' = << >>
  /\ node' = node
  /\ heap_until' = << >>
  /\ queue' = queue
  /\ mergesort' = << >>
  /\ probe' = << >>
  /\ UNCHANGED <<ctx, base, heap_size>>

\* gheap_make_heap(ctx, a, n) on the whole of a buffer that holds no heap
\* (tests.c test_pop_heap: init_array, then gheap_make_heap).
MakeHeap ==
  /\ Idle
  /\ heap_size = 0
  /\ base' = gheap_make_heap(ctx, NewSt(base), Size(base)).a
  /\ heap_size' = Size(base)
  /\ Called("make_heap", base, 0)
  /\ UNCHANGED <<ctx, item, pre_item>>

\* gheap_push_heap(ctx, a, heap_size + 1) (tests.c test_push_heap).
PushHeap ==
  /\ Idle
  /\ heap_size < Size(base)
  /\ gheap_is_heap(ctx, base, heap_size)
  /\ base' = gheap_push_heap(ctx, NewSt(base), heap_size + 1).a
  /\ heap_size' = heap_size + 1
  /\ Called("push_heap", base, 0)
  /\ UNCHANGED <<ctx, item, pre_item>>

\* gheap_pop_heap(ctx, a, heap_size) (tests.c test_pop_heap).
PopHeap ==
  /\ Idle
  /\ heap_size > 0
  /\ gheap_is_heap(ctx, base, heap_size)
  /\ base' = gheap_pop_heap(ctx, NewSt(base), heap_size).a
  /\ heap_size' = heap_size - 1
  /\ Called("pop_heap", base, 0)
  /\ UNCHANGED <<ctx, item, pre_item>>

\* gheap_sort_heap(ctx, a, heap_size); no heap is left afterwards.
SortHeap ==
  /\ Idle
  /\ heap_size > 0
  /\ gheap_is_heap(ctx, base, heap_size)
  /\ base' = gheap_sort_heap(ctx, NewSt(base), heap_size).a
  /\ heap_size' = 0
  /\ Called("sort_heap", base, 0)
  /\ UNCHANGED <<ctx, item, pre_item>>

\* gheap_swap_max_item(ctx, a, heap_size, &x) with x outside the buffer: x is
\* the slot right after the buffer.
SwapMaxItem ==
  /\ Idle
  /\ heap_size > 0
  /\ gheap_is_heap(ctx, base, heap_size)
  /\ \E x \in Items :
       LET n == Size(base)
           ext == [i \in 0..n |-> IF i < n THEN base[i] ELSE x]
           r == gheap_swap_max_item(ctx, NewSt(ext), heap_size, n).a
       IN /\ base' = [i \in 0..(n - 1) |-> r[i]]
          /\ item' = r[n]
          /\ pre_item' = x
  /\ Called("swap_max_item", base, 0)
  /\ UNCHANGED <<ctx, heap_size>>

\* tests.c test_restore_heap_after_item_increase: a[i] gets a value that is
\* not less than the old one, then the heap is restored.
RestoreHeapAfterItemIncrease ==
  /\ Idle
  /\ heap_size > 0
  /\ gheap_is_heap(ctx, base, heap_size)
  /\ \E i \in 0..(heap_size - 1) :
       \E v \in Items :
         /\ ~less_comparer(ctx, v, base[i])
         /\ LET a == [base EXCEPT ![i] = v]
            IN /\ base' = gheap_restore_heap_after_item_increase(ctx,
                            NewSt(a), heap_size, i).a
               /\ Called("restore_heap_after_item_increase", a, i)
  /\ UNCHANGED <<ctx, heap_size, item, pre_item>>

\* tests.c test_restore_heap_after_item_decrease: a[i] gets a value that is
\* not greater than the old one, then the heap is restored.
RestoreHeapAfterItemDecrease ==
  /\ Idle
  /\ heap_size > 0
  /\ gheap_is_heap(ctx, base, heap_size)
  /\ \E i \in 0..(heap_size - 1) :
       \E v \in Items :
         /\ ~less_comparer(ctx, base[i], v)
         /\ LET a == [base EXCEPT ![i] = v]
            IN /\ base' = gheap_restore_heap_after_item_decrease(ctx,
                            NewSt(a), heap_size, i).a
               /\ Called("restore_heap_after_item_decrease", a, i)
  /\ UNCHANGED <<ctx, heap_size, item, pre_item>>

\* gheap_remove_from_heap(ctx, a, heap_size, i) (tests.c
\* test_remove_from_heap).
RemoveFromHeap ==
  /\ Idle
  /\ heap_size > 0
  /\ gheap_is_heap(ctx, base, heap_size)
  /\ \E i \in 0..(heap_size - 1) :
       /\ base' = gheap_remove_from_heap(ctx, NewSt(base), heap_size, i).a
       /\ Called("remove_from_heap", base, i)
  /\ heap_size' = heap_size - 1
  /\ UNCHANGED <<ctx, item, pre_item>>

\* galgorithm_heapsort(ctx, a, n) on the whole of a buffer that holds no heap
\* (tests.c test_heapsort: init_array, then galgorithm_heapsort).
Heapsort ==
  /\ Idle
  /\ heap_size = 0
  /\ base' = galgorithm_heapsort(ctx, NewSt(base), Size(base)).a
  /\ heap_size' = 0
  /\ Called("heapsort", base, 0)
  /\ UNCHANGED <<ctx, item, pre_item>>

\* galgorithm_partial_sort(ctx, a, n, m), 0 <= m <= n, on the whole of a
\* buffer that holds no heap (tests.c test_partial_sort).
PartialSort ==
  /\ Idle
  /\ heap_size = 0
  /\ \E m \in 0..Size(base) :
       /\ base' = galgorithm_partial_sort(ctx, NewSt(base), Size(base), m).a
       /\ Called("partial_sort", base, m)
  /\ heap_size' = 0
  /\ UNCHANGED <<ctx, item, pre_item>>

Next ==
  \/ Checked
  \/ MakeHeap
  \/ PushHeap
  \/ PopHeap
  \/ SortHeap
  \/ SwapMaxItem
  \/ RestoreHeapAfterItemIncrease
  \/ RestoreHeapAfterItemDecrease
  \/ RemoveFromHeap
  \/ Heapsort
  \/ PartialSort

Spec == Init /\ [][Next]_vars

\* ---------------------------------------------------------------- merge machine
\* The i-th smallest element of a set of numbers, i = 0, 1, ...
Kth(B, i) == CHOOSE x \in B : Cardinality({y \in B : y < x}) = i

\* tests.c test_nway_merge: the input contexts over the memory a[0..n), one
\* for each run between two consecutive cuts (the 1-way, 2-way and n-way
\* merges of the test are the cuts {}, {n / 2} and 1..n-1).
InputCtxs(n, cuts) ==
  LET B == cuts \cup {0, n}
  IN [i \in 0..Cardinality(cuts) |->
        [next |-> Kth(B, i), end |-> Kth(B, i + 1)]]

\* tests.c test_nway_merge: the buffer a[0..n), n >= 1, that holds the inputs.
MergeInit ==
  /\ ctx \in Shapes
  /\ base \in UNION {[0..(n - 1) -> Items] : n \in 1..MaxMerge}
  /\ heap_size = 0
  /\ node = 0
  /\ NoCall

\* galgorithm_nway_merge(ctx, &input, &output) over the runs of the buffer.
NwayMerge ==
  /\ Idle
  /\ heap_size = 0
  /\ Size(base) > 0
  /\ \E cuts \in SUBSET (1..(Size(base) - 1)) :
       LET input == InputCtxs(Size(base), cuts)
       IN /\ \A i \in DOMAIN input : SortedInput(ctx, base, input[i])
          /\ \E m \in {galgorithm_nway_merge(ctx, base, input)} :
               /\ ctxs' = m.a
               /\ out' = m.out
               /\ late' = m.late
          /\ pre' = input
  /\ op' = "nway_merge"
  /\ UNCHANGED <<ctx, base, heap_size, item, pre_size, pre_item, arg, indexVars, heap_until, queue, mergesort, probe>>

MergeNext ==
  \/ Checked
  \/ NwayMerge

SpecMerge == MergeInit /\ [][MergeNext]_vars

\* ---------------------------------------------------------------- queue machine
\* tests.c test_priority_queue: an array of up to MaxQueue items, no queue.
QueueInit ==
  /\ ctx \in Shapes
  /\ base \in UNION {[0..(n - 1) -> Items] : n \in 0..MaxQueue}
  /\ heap_size = 0
  /\ node = 0
  /\ NoCall

QueueFrame ==
  UNCHANGED <<ctx, base, heap_size, item, op, pre, pre_size, pre_item, arg, mergeVars, indexVars, heap_until, mergesort, probe>>

\* gpriority_queue_create(ctx, &item_deleter), by a driver without an array.
QueueCreate ==
  /\ queue = << >>
  /\ queue' = gpriority_queue_create
  /\ QueueFrame

\* gpriority_queue_create_from_array(ctx, &item_deleter, a, n): the array
\* becomes the queue's buffer and is the caller's no more.
QueueCreateFromArray ==
  /\ queue = << >>
  /\ queue' = gpriority_queue_create_from_array(ctx, base, Size(base))
  /\ base' = << >>
  /\ UNCHANGED <<ctx, heap_size, item, op, pre, pre_size, pre_item, arg, mergeVars, indexVars, heap_until, mergesort, probe>>

\* gpriority_queue_push(q, &tmp).
QueuePush ==
  /\ queue # << >>
  /\ queue.state = "live"
  /\ queue.size < MaxQueue
  /\ queue.pushes < MaxPushes
  /\ \E x \in Items : queue' = gpriority_queue_push(ctx, queue, x)
  /\ QueueFrame

\* gpriority_queue_pop(q) on a queue that is not empty.
QueuePop ==
  /\ queue # << >>
  /\ queue.state = "live"
  /\ ~gpriority_queue_empty(queue)
  /\ queue' = gpriority_queue_pop(ctx, queue)
  /\ QueueFrame

\* gpriority_queue_delete(q).
QueueDelete ==
  /\ queue # << >>
  /\ queue.state = "live"
  /\ queue' = gpriority_queue_delete(queue)
  /\ QueueFrame

QueueNext ==
  \/ QueueCreate
  \/ QueueCreateFromArray
  \/ QueuePush
  \/ QueuePop
  \/ QueueDelete

SpecQueue == QueueInit /\ [][QueueNext]_vars

\* ---------------------------------------------------------------- mergesort machine
\* ops_count_test.cpp test_nway_mergesort_avg: a range of up to MaxSort items.
SortInit ==
  /\ ctx \in Shapes
  /\ base \in UNION {[0..(n - 1) -> Items] : n \in 0..MaxSort}
  /\ heap_size = 0
  /\ node = 0
  /\ NoCall

\* algorithm::nway_mergesort(a.begin(), a.end(), less, sorter,
\* small_range_size, subranges_count).
NwayMergesort ==
  /\ Idle
  /\ \E small_range_size \in 1..MaxSmallRange, subranges_count \in 2..MaxSubranges :
       mergesort' = nway_mergesort(ctx, base, Size(base), small_range_size,
                                   subranges_count)
  /\ op' = "nway_mergesort"
  /\ UNCHANGED <<ctx, base, heap_size, item, pre, pre_size, pre_item, arg, mergeVars, indexVars, heap_until, queue, probe>>

SortNext ==
  \/ Checked
  \/ NwayMergesort

SpecSort == SortInit /\ [][SortNext]_vars

\* ---------------------------------------------------------------- run machine
\* nway_mergesort on a range of any size that fits size_t, with any
\* small_range_size > 0 and subranges_count in 2..MaxSubranges + 1.
RunInit ==
  /\ ctx \in [small_range_size : 1..SIZE_MAX,
              subranges_count : 2..(MaxSubranges + 1)]
  /\ node \in 0..SIZE_MAX
  /\ base = << >>
  /\ heap_size = 0
  /\ NoCall

\* nway_mergesort(first, first + node, less, sorter, small_range_size,
\* subranges_count), by its sizes.
NwayMergesortRuns ==
  /\ Idle
  /\ probe' = nway_mergesort_runs(node, ctx.small_range_size,
                                  ctx.subranges_count)
  /\ op' = "nway_mergesort"
  /\ UNCHANGED <<ctx, base, heap_size, item, pre, pre_size, pre_item, arg, mergeVars, indexVars, heap_until, queue, mergesort>>

RunNext ==
  \/ Checked
  \/ NwayMergesortRuns

SpecRuns == RunInit /\ [][RunNext]_vars

\* ---------------------------------------------------------------- is_heap machine
\* tests.c test_is_heap: the arrays 0, 1, ..., n-1 (ascending), n, n-1, ..., 1
\* (descending) and n, n, ..., n (identical items).
TestArrays ==
  UNION {{[i \in 0..(n - 1) |-> i], [i \in 0..(n - 1) |-> n - i],
          [i \in 0..(n - 1) |-> n]} : n \in 1..MaxN}

IsHeapInit ==
  /\ ctx \in Shapes
  /\ base \in Arrays \cup TestArrays
  /\ heap_size = 0
  /\ node = 0
  /\ NoCall

\* gheap_is_heap_until(ctx, a, n) and gheap_is_heap(ctx, a, n) on a prefix of
\* the buffer, by gheap.h and by gheap_c.c.
IsHeapUntil ==
  /\ Idle
  /\ \E n \in 0..Size(base) :
       /\ heap_until' =
            [until |-> gheap_is_heap_until(ctx, base, n),
             is_heap |-> gheap_is_heap(ctx, base, n),
             until_c |-> gheap_c_is_heap_until(ctx, base, n),
             is_heap_c |-> gheap_c_is_heap(ctx, base, n)]
       /\ arg' = n
  /\ op' = "is_heap_until"
  /\ UNCHANGED <<ctx, base, heap_size, item, pre, pre_size, pre_item, mergeVars, indexVars, queue, mergesort, probe>>

IsHeapNext ==
  \/ Checked
  \/ IsHeapUntil

SpecIsHeap == IsHeapInit /\ [][IsHeapNext]_vars

\* ---------------------------------------------------------------- index machine
\* The shapes and the builds of gheap_c.c (tests.cpp test_parent_child is
\* instantiated for fanouts and page_chunks from 1 up).
IndexShapes ==
  [fanout : 1..MaxIndexFanout, page_chunks : 1..MaxIndexChunks,
   ndebug : BOOLEAN]

\* tests.cpp test_parent_child: u = start_index + i, any index above 0.
IndexInit ==
  /\ ctx \in IndexShapes
  /\ node \in 1..SIZE_MAX
  /\ base = << >>
  /\ heap_size = 0
  /\ NoCall

\* The body of the loop of test_parent_child for u = node: the first child
\* of u and, when there is one, the parent of each of the fanout indexes
\* child, child + 1, ... (size_t sums); the parent of u and its first child.
ParentChild ==
  /\ Idle
  /\ LET d == ctx.fanout
         p == ctx.page_chunks
         child == _get_child_index(ctx.ndebug, d, p, node)
         parent == _get_parent_index(ctx.ndebug, d, p, node)
     IN links' =
          [child |-> child,
           parents |-> [k \in 0..(d - 1) |->
                          IF child = SIZE_MAX \/ child = -1
                            THEN -1
                            ELSE _get_parent_index(ctx.ndebug, d, p,
                                                   Wrap(child + k))],
           parent |-> parent,
           parent_child |-> _get_child_index(ctx.ndebug, d, p, parent)]
  /\ op' = "parent_child"
  /\ UNCHANGED <<ctx, base, heap_size, item, pre, pre_size, pre_item, arg, mergeVars, node, heap_until, queue, mergesort, probe>>

IndexNext ==
  \/ Checked
  \/ ParentChild

SpecIndex == IndexInit /\ [][IndexNext]_vars

\* ---------------------------------------------------------------- width machine
\* tests.cpp test_all: test_parent_child(SIZE_MAX - n, n) walks the indexes
\* next to SIZE_MAX for each shape; here every shape whose page size
\* fanout * page_chunks fits size_t, and every index above 0.
WidthInit ==
  /\ ctx \in {s \in [fanout : 1..SIZE_MAX, page_chunks : 1..SIZE_MAX,
                     ndebug : BOOLEAN] :
                s.fanout * s.page_chunks <= SIZE_MAX}
  /\ node \in 1..SIZE_MAX
  /\ base = << >>
  /\ heap_size = 0
  /\ NoCall

SpecWidth == WidthInit /\ [][IndexNext]_vars

\* ---------------------------------------------------------------- shape machine
\* tests.c main_test runs every driver once for each shape (test_all(1, 1),
\* test_all(2, 1), ..., test_all(1, 2), ...) on the same arrays: a buffer of
\* up to MaxShapeN items and no call under examination.
ShapeInit ==
  /\ ctx \in Shapes
  /\ base \in UNION {[0..(n - 1) -> Items] : n \in 0..MaxShapeN}
  /\ heap_size = 0
  /\ node = 0
  /\ NoCall

\* The shapes another run of test_all gives to the same comparer.
OtherShapes == {c2 \in Shapes : c2.inv = ctx.inv /\ c2 # ctx}

\* One call made twice on copies of the buffer, under ctx and under the
\* shape c2 of another run: the two resulting arrays, side by side.
ShapeCall(name, c2, i, mine, theirs) ==
  /\ op' = name
  /\ probe' = [other |-> c2, i |-> i, mine |-> mine, theirs |-> theirs]
  /\ UNCHANGED <<ctx, base, heap_size, item, pre, pre_size, pre_item, arg, mergeVars, indexVars, heap_until, queue, mergesort>>

\* gheap_make_heap(ctx, a, n) under two shapes.
ShapeMakeHeap ==
  /\ Idle
  /\ \E c2 \in OtherShapes :
       ShapeCall("make_heap", c2, 0,
                 gheap_make_heap(ctx, NewSt(base), Size(base)).a,
                 gheap_make_heap(c2, NewSt(base), Size(base)).a)

\* gheap_push_heap(ctx, a, n) under two shapes; a[0..n-1) is a heap of both.
ShapePushHeap ==
  /\ Idle
  /\ Size(base) > 0
  /\ gheap_is_heap(ctx, base, Size(base) - 1)
  /\ \E c2 \in OtherShapes :
       /\ gheap_is_heap(c2, base, Size(base) - 1)
       /\ ShapeCall("push_heap", c2, 0,
                    gheap_push_heap(ctx, NewSt(base), Size(base)).a,
                    gheap_push_heap(c2, NewSt(base), Size(base)).a)

\* gheap_pop_heap(ctx, a, n) under two shapes; a[0..n) is a heap of both.
ShapePopHeap ==
  /\ Idle
  /\ Size(base) > 0
  /\ gheap_is_heap(ctx, base, Size(base))
  /\ \E c2 \in OtherShapes :
       /\ gheap_is_heap(c2, base, Size(base))
       /\ ShapeCall("pop_heap", c2, 0,
                    gheap_pop_heap(ctx, NewSt(base), Size(base)).a,
                    gheap_pop_heap(c2, NewSt(base), Size(base)).a)

\* gheap_sort_heap(ctx, a, n) under two shapes; a[0..n) is a heap of both.
ShapeSortHeap ==
  /\ Idle
  /\ gheap_is_heap(ctx, base, Size(base))
  /\ \E c2 \in OtherShapes :
       /\ gheap_is_heap(c2, base, Size(base))
       /\ ShapeCall("sort_heap", c2, 0,
                    gheap_sort_heap(ctx, NewSt(base), Size(base)).a,
                    gheap_sort_heap(c2, NewSt(base), Size(base)).a)

\* gheap_remove_from_heap(ctx, a, n, i) under two shapes; a[0..n) is a heap
\* of both.
ShapeRemoveFromHeap ==
  /\ Idle
  /\ gheap_is_heap(ctx, base, Size(base))
  /\ \E c2 \in OtherShapes, i \in DOMAIN base :
       /\ gheap_is_heap(c2, base, Size(base))
       /\ ShapeCall("remove_from_heap", c2, i,
                    gheap_remove_from_heap(ctx, NewSt(base), Size(base), i).a,
                    gheap_remove_from_heap(c2, NewSt(base), Size(base), i).a)

\* galgorithm_heapsort(ctx, a, n) under two shapes.
ShapeHeapsort ==
  /\ Idle
  /\ \E c2 \in OtherShapes :
       ShapeCall("heapsort", c2, 0,
                 galgorithm_heapsort(ctx, NewSt(base), Size(base)).a,
                 galgorithm_heapsort(c2, NewSt(base), Size(base)).a)

\* galgorithm_partial_sort(ctx, a, n, middle_index) under two shapes.
ShapePartialSort ==
  /\ Idle
  /\ \E c2 \in OtherShapes, i \in 0..Size(base) :
       ShapeCall("partial_sort", c2, i,
                 galgorithm_partial_sort(ctx, NewSt(base), Size(base), i).a,
                 galgorithm_partial_sort(c2, NewSt(base), Size(base), i).a)

\* galgorithm_nway_merge(ctx, &input, &output) under two shapes, over the
\* same sorted runs of the buffer: the two outputs.
ShapeNwayMerge ==
  /\ Idle
  /\ Size(base) > 0
  /\ \E c2 \in OtherShapes, cuts \in SUBSET (1..(Size(base) - 1)) :
       /\ \A k \in 0..Cardinality(cuts) :
            SortedInput(ctx, base, InputCtxs(Size(base), cuts)[k])
       /\ ShapeCall("nway_merge", c2, Cardinality(cuts) + 1,
            galgorithm_nway_merge(ctx, base, InputCtxs(Size(base), cuts)).out,
            galgorithm_nway_merge(c2, base, InputCtxs(Size(base), cuts)).out)

ShapeNext ==
  \/ Checked
  \/ ShapeMakeHeap
  \/ ShapePushHeap
  \/ ShapePopHeap
  \/ ShapeSortHeap
  \/ ShapeRemoveFromHeap
  \/ ShapeHeapsort
  \/ ShapePartialSort
  \/ ShapeNwayMerge

SpecShape == ShapeInit /\ [][ShapeNext]_vars

\* ---------------------------------------------------------------- call machine
\* A buffer of up to MaxCallN items; each call is made on a window a[0..n)
\* of it by the build with asserts, and watched slot by slot.
CallInit ==
  /\ ctx \in Shapes
  /\ base \in UNION {[0..(n - 1) -> Items] : n \in 0..MaxCallN}
  /\ heap_size = 0
  /\ node = 0
  /\ NoCall

\* The number of leading items the entry asserts of an operation want to
\* be a heap: assert(gheap_is_heap(ctx, base, ...)); 0 for the operations
\* with no such assert.
asserted_heap_size(name, n, i) ==
  CASE name = "push_heap" -> n - 1
    [] name \in {"pop_heap", "swap_max_item", "remove_from_heap"} -> n
    [] name \in {"restore_heap_after_item_increase",
                 "restore_heap_after_item_decrease"} -> i
    [] OTHER -> 0

\* Mutant: push_heap checks its heap without the assert on heap_size.
entry_asserts_without_size(name, c, a, n, i) ==
  /\ CASE name \in {"pop_heap", "swap_max_item"} -> n > 0
       [] name \in {"restore_heap_after_item_increase",
                    "restore_heap_after_item_decrease", "remove_from_heap",
                    "sift_down", "move_up_max_child"} -> n > 0 /\ i < n
       [] name = "nway_merge" -> i > 0
       [] OTHER -> TRUE
  /\ gheap_is_heap(c, a, asserted_heap_size(name, n, i))

\* The asserts at the entry of each operation of gheap.h and of
\* galgorithm_nway_merge (i input contexts) in the build without NDEBUG:
\* TRUE when all of them pass. make_heap, sort_heap and is_heap_until have
\* none.
entry_asserts(name, c, a, n, i) ==
  /\ CASE name \in {"push_heap", "pop_heap", "swap_max_item"} -> n > 0
       [] name \in {"restore_heap_after_item_increase",
                    "restore_heap_after_item_decrease", "remove_from_heap",
                    "sift_down", "move_up_max_child"} -> n > 0 /\ i < n
       [] name = "nway_merge" -> i > 0
       [] OTHER -> TRUE
  /\ gheap_is_heap(c, a, asserted_heap_size(name, n, i))

\* What was seen of the call name(a0, n, i): whether an entry assert stopped
\* it and, when none did, the buffer it left, the highest slot it touched,
\* whether the mover was given the same slot twice, and the value returned.
\* The driver calls with arguments that pass the asserts, or on no items.
Call(name, a0, n, i, st, ret) ==
  \E passed \in {entry_asserts(name, ctx, a0, n, i)} :
    /\ passed \/ n = 0
    /\ op' = name
    /\ probe' =
         IF passed
           THEN (CHOOSE result \in
                  {[n |-> n, i |-> i, failed |-> FALSE, a0 |-> a0, a |-> s.a,
                    top |-> s.top, self |-> s.self, ret |-> ret]
                    : s \in {st}} : TRUE)
           ELSE [n |-> n, i |-> i, failed |-> TRUE, a0 |-> a0, a |-> a0,
                 top |-> -1, self |-> FALSE, ret |-> -1]
    /\ UNCHANGED <<ctx, base, heap_size, item, pre, pre_size, pre_item, arg, mergeVars, indexVars, heap_until, queue, mergesort>>

\* gheap_is_heap_until(ctx, a, n).
CallIsHeapUntil ==
  /\ Idle
  /\ \E n \in 0..Size(base) :
       Call("is_heap_until", base, n, 0, NewSt(base),
            gheap_is_heap_until(ctx, base, n))

\* gheap_make_heap(ctx, a, n).
CallMakeHeap ==
  /\ Idle
  /\ \E n \in 0..Size(base) :
       Call("make_heap", base, n, 0, gheap_make_heap(ctx, NewSt(base), n), 0)

\* gheap_push_heap(ctx, a, n).
CallPushHeap ==
  /\ Idle
  /\ \E n \in 0..Size(base) :
       Call("push_heap", base, n, 0, gheap_push_heap(ctx, NewSt(base), n), 0)

\* gheap_pop_heap(ctx, a, n).
CallPopHeap ==
  /\ Idle
  /\ \E n \in 0..Size(base) :
       Call("pop_heap", base, n, 0, gheap_pop_heap(ctx, NewSt(base), n), 0)

\* gheap_sort_heap(ctx, a, n) on a heap.
CallSortHeap ==
  /\ Idle
  /\ \E n \in 0..Size(base) :
       /\ gheap_is_heap(ctx, base, n)
       /\ Call("sort_heap", base, n, 0,
               gheap_sort_heap(ctx, NewSt(base), n), 0)

\* The buffer with the item x in the slot before it, as slot -1: an item
\* outside the heap that is not a slot of the heap's array.
WithItem(a, x) == [j \in -1..(Size(a) - 1) |-> IF j = -1 THEN x ELSE a[j]]

\* gheap_swap_max_item(ctx, a, n, &item) with the item outside the buffer.
CallSwapMaxItem ==
  /\ Idle
  /\ \E n \in 0..Size(base), x \in Items :
       Call("swap_max_item", WithItem(base, x), n, -1,
            gheap_swap_max_item(ctx, NewSt(WithItem(base, x)), n, -1), 0)

\* gheap_restore_heap_after_item_increase(ctx, a, n, i) once a[i] of a heap
\* got a value that is not less than the old one; on no items, as it is.
CallRestoreIncrease ==
  /\ Idle
  /\ \E n \in 0..Size(base), i \in DOMAIN base \cup {0}, v \in Items :
       /\ gheap_is_heap(ctx, base, n)
       /\ \/ i < n /\ ~less_comparer(ctx, v, base[i])
          \/ n = 0 /\ i = 0 /\ v = 0
       /\ \E a1 \in {IF n = 0 THEN base ELSE [base EXCEPT ![i] = v]} :
            Call("restore_heap_after_item_increase", a1, n, i,
                 gheap_restore_heap_after_item_increase(ctx, NewSt(a1), n, i), 0)

\* gheap_restore_heap_after_item_decrease(ctx, a, n, i) once a[i] of a heap
\* got a value that is not greater than the old one; on no items, as it is.
CallRestoreDecrease ==
  /\ Idle
  /\ \E n \in 0..Size(base), i \in DOMAIN base \cup {0}, v \in Items :
       /\ gheap_is_heap(ctx, base, n)
       /\ \/ i < n /\ ~less_comparer(ctx, base[i], v)
          \/ n = 0 /\ i = 0 /\ v = 0
       /\ \E a1 \in {IF n = 0 THEN base ELSE [base EXCEPT ![i] = v]} :
            Call("restore_heap_after_item_decrease", a1, n, i,
                 gheap_restore_heap_after_item_decrease(ctx, NewSt(a1), n, i), 0)

\* gheap_remove_from_heap(ctx, a, n, i).
CallRemoveFromHeap ==
  /\ Idle
  /\ \E n \in 0..Size(base), i \in DOMAIN base \cup {0} :
       /\ i < n \/ (n = 0 /\ i = 0)
       /\ Call("remove_from_heap", base, n, i,
               gheap_remove_from_heap(ctx, NewSt(base), n, i), 0)

\* galgorithm_nway_merge(ctx, &input, &output) over sorted runs of the
\* first n items: i input contexts, merged through a heap of contexts (no
\* slot of the buffer is a slot of that heap).
CallNwayMerge ==
  /\ Idle
  /\ \E n \in 1..Size(base), cuts \in SUBSET (1..(Size(base) - 1)) :
       /\ cuts \subseteq 1..(n - 1)
       /\ \A k \in 0..Cardinality(cuts) :
            SortedInput(ctx, base, InputCtxs(n, cuts)[k])
       /\ Call("nway_merge", base, n, Cardinality(cuts) + 1,
               (CHOOSE result \in
                 {[a |-> m.out, top |-> -1, self |-> m.self]
                   : m \in {galgorithm_nway_merge(ctx, base,
                                InputCtxs(n, cuts))}} : TRUE),
               0)

\* The buffer as an array of input contexts, one for each slot: context j
\* points at a[j], so that items with equal keys can be told apart.
Tagged(a) == [j \in DOMAIN a |-> [next |-> j, end |-> j + 1]]

\* The context whose comparer compares such contexts by the items of a.
TagCtx(c, a) ==
  [fanout |-> c.fanout, page_chunks |-> c.page_chunks, inv |-> c.inv,
   mem |-> a]

\* _gheap_sift_down(ctx, a, n, i, &tmp) of gheap.h with tmp a copy of a[i],
\* on tagged items.
CallSiftDown ==
  /\ Idle
  /\ \E n \in 1..Size(base), i \in DOMAIN base :
       /\ i < n
       /\ Call("sift_down", Tagged(base), n, i,
               _gheap_sift_down(TagCtx(ctx, base), NewSt(Tagged(base)), n, i,
                                Tagged(base)[i]), 0)

\* One turn of _sift_down of gheap_c.c from the hole i, on tagged items.
CallMoveUpMaxChild ==
  /\ Idle
  /\ \E n \in 1..Size(base), i \in DOMAIN base :
       /\ i < n
       /\ \E r \in {SiftDownTurn(TagCtx(ctx, base), Tagged(base), n, i)} :
            Call("move_up_max_child", Tagged(base), n, i,
                 [a |-> r.a, top |-> -1, self |-> FALSE], r.hole)

CallNext ==
  \/ Checked
  \/ CallSiftDown
  \/ CallMoveUpMaxChild
  \/ CallNwayMerge
  \/ CallIsHeapUntil
  \/ CallMakeHeap
  \/ CallPushHeap
  \/ CallPopHeap
  \/ CallSortHeap
  \/ CallSwapMaxItem
  \/ CallRestoreIncrease
  \/ CallRestoreDecrease
  \/ CallRemoveFromHeap

SpecCalls == CallInit /\ [][CallNext]_vars

\* ---------------------------------------------------------------- properties
AllItems == Items \cup {-1}

Count(a, n, v) == Cardinality({i \in 0..(n - 1) : a[i] = v})

\* a[0..n) and b[0..n) hold the same multiset of items.
SameItems(a, b, n) == \A v \in AllItems : Count(a, n, v) = Count(b, n, v)

\* a and b are buffers of the same size that agree on the slots n, n+1, ...
SameTail(a, b, n) ==
  /\ DOMAIN a = DOMAIN b
  /\ \A i \in DOMAIN a : i >= n => a[i] = b[i]

\* tests.c assert_sorted on a[0..n).
Sorted(c, a, n) ==
  \A i \in 1..(n - 1) : ~less_comparer(c, a[i], a[i - 1])

\* The heap precondition the operations assert holds whenever they are called.
HeapInv == gheap_is_heap(ctx, base, heap_size)

\* gheap_pop_heap on the windows n, n-1, ..., 1 (tests.c test_pop_heap).
RECURSIVE PopAll(_, _, _)
PopAll(c, a, n) ==
  IF n > 0
    THEN (CHOOSE result \in
           {PopAll(c, a1, n - 1)
             : a1 \in {gheap_pop_heap(c, NewSt(a), n).a}} : TRUE)
    ELSE a

\* C1: after make_heap(a, n) on any array and any shape, is_heap(a, n) holds
\* and a is a permutation of the input.
C1_MakeHeap ==
  op = "make_heap" =>
    /\ heap_size = Size(base)
    /\ gheap_is_heap(ctx, base, Size(base))
    /\ DOMAIN base = DOMAIN pre
    /\ SameItems(base, pre, Size(base))

\* make_heap has reordered a paged array that was not a heap.
C1_Witness ==
  /\ op = "make_heap"
  /\ Size(base) >= 5
  /\ ctx.page_chunks > 1
  /\ ~gheap_is_heap(ctx, pre, Size(pre))
  /\ base # pre

\* C2: after heapsort(a, n) the array is a permutation of the input and no
\* i in [1, n) has cmp(a[i], a[i-1]), with the natural and with the inverted
\* comparator.
C2_Heapsort ==
  op = "heapsort" =>
    /\ DOMAIN base = DOMAIN pre
    /\ SameItems(base, pre, Size(base))
    /\ Sorted(ctx, base, Size(base))
    /\ (~ctx.inv => \A i \in 1..(Size(base) - 1) : base[i - 1] <= base[i])
    /\ (ctx.inv => \A i \in 1..(Size(base) - 1) : base[i - 1] >= base[i])

\* heapsort with the inverted comparator has reordered an unsorted array.
C2_Witness ==
  /\ op = "heapsort"
  /\ ctx.inv
  /\ Size(base) >= 5
  /\ ~Sorted(ctx, pre, Size(pre))
  /\ base # pre

\* C3: if a[0..n-1) is a heap, then after push_heap(a, n) a[0..n) is a heap
\* with the same items (and the slots after it are untouched); so pushing
\* the slots of an arbitrary array one by one leaves a heap.
C3_PushHeap ==
  op = "push_heap" =>
    /\ heap_size = pre_size + 1
    /\ gheap_is_heap(ctx, pre, pre_size)
    /\ gheap_is_heap(ctx, base, heap_size)
    /\ SameItems(base, pre, heap_size)
    /\ SameTail(base, pre, heap_size)

\* The last slot of the buffer has been pushed and has travelled up.
C3_Witness ==
  /\ op = "push_heap"
  /\ heap_size = Size(base)
  /\ heap_size >= 5
  /\ base[heap_size - 1] # pre[heap_size - 1]

\* C4: if a[0..n) is a heap, n >= 1, then after pop_heap(a, n) a[n-1] holds
\* the old a[0], a[0..n-1) is a heap and a[0..n) is a permutation of its
\* previous contents.
C4_PopHeap ==
  op = "pop_heap" =>
    /\ pre_size >= 1
    /\ heap_size = pre_size - 1
    /\ base[pre_size - 1] = pre[0]
    /\ gheap_is_heap(ctx, base, pre_size - 1)
    /\ SameItems(base, pre, pre_size)
    /\ SameTail(base, pre, pre_size)

\* A pop from a heap of at least five items that changed the buffer.
C4_Witness ==
  /\ op = "pop_heap"
  /\ pre_size >= 5
  /\ base # pre

\* C5: from any heap of n items, sort_heap(a, n) leaves a[0..n) sorted
\* ascending (by the comparator), and it is the array that pop_heap on the
\* windows n, n-1, ..., 1 produces.
C5_SortHeap ==
  op = "sort_heap" =>
    /\ gheap_is_heap(ctx, pre, pre_size)
    /\ Sorted(ctx, base, pre_size)
    /\ SameItems(base, pre, pre_size)
    /\ SameTail(base, pre, pre_size)
    /\ base = PopAll(ctx, pre, pre_size)

\* sort_heap has reordered a heap of at least five items.
C5_Witness ==
  /\ op = "sort_heap"
  /\ pre_size >= 5
  /\ base # pre

\* C6: if a[0..n) is a heap and i < n, then after remove_from_heap(a, n, i)
\* a[n-1] holds the old a[i], a[0..n-1) is a heap and a[0..n) is a
\* permutation of its previous contents, whether the former last item goes
\* down or up from slot i.
C6_RemoveFromHeap ==
  op = "remove_from_heap" =>
    /\ arg < pre_size
    /\ heap_size = pre_size - 1
    /\ base[pre_size - 1] = pre[arg]
    /\ gheap_is_heap(ctx, base, pre_size - 1)
    /\ SameItems(base, pre, pre_size)
    /\ SameTail(base, pre, pre_size)

\* The former last item was not less than the removed one and has travelled
\* up from slot i.
C6_Witness ==
  /\ op = "remove_from_heap"
  /\ arg < pre_size - 1
  /\ ~less_comparer(ctx, pre[pre_size - 1], pre[arg])
  /\ base[arg] # pre[pre_size - 1]

\* C7: if a[0..n) was a heap and a[i] is replaced by a value that is not less
\* than the old one, restore_heap_after_item_increase(a, n, i) makes a[0..n)
\* a heap again with the same items (pre is the buffer after the
\* replacement).
C7_RestoreAfterIncrease ==
  op = "restore_heap_after_item_increase" =>
    /\ arg < heap_size
    /\ heap_size = pre_size
    /\ gheap_is_heap(ctx, base, heap_size)
    /\ SameItems(base, pre, heap_size)
    /\ SameTail(base, pre, heap_size)

\* The increased item broke the heap and has travelled up.
C7_Witness ==
  /\ op = "restore_heap_after_item_increase"
  /\ arg >= 3
  /\ ~gheap_is_heap(ctx, pre, pre_size)
  /\ base # pre

\* C8: if a[0..n) was a heap and a[i] is replaced by a value that is not
\* greater than the old one, restore_heap_after_item_decrease(a, n, i) makes
\* a[0..n) a heap again with the same items (pre is the buffer after the
\* replacement).
C8_RestoreAfterDecrease ==
  op = "restore_heap_after_item_decrease" =>
    /\ arg < heap_size
    /\ heap_size = pre_size
    /\ gheap_is_heap(ctx, base, heap_size)
    /\ SameItems(base, pre, heap_size)
    /\ SameTail(base, pre, heap_size)

\* The decreased item broke the heap and has travelled down.
C8_Witness ==
  /\ op = "restore_heap_after_item_decrease"
  /\ heap_size >= 5
  /\ ~gheap_is_heap(ctx, pre, pre_size)
  /\ base # pre

\* C9: if a[0..n) is a heap, n >= 1, and x is an item outside it, then after
\* swap_max_item(a, n, x) the slot x holds the old a[0], the heap holds its
\* old items minus the old a[0] plus the old x, and a[0..n) is a heap.
C9_SwapMaxItem ==
  op = "swap_max_item" =>
    /\ heap_size >= 1
    /\ heap_size = pre_size
    /\ item = pre[0]
    /\ gheap_is_heap(ctx, base, heap_size)
    /\ \A v \in AllItems :
         Count(base, heap_size, v) + (IF item = v THEN 1 ELSE 0)
           = Count(pre, heap_size, v) + (IF pre_item = v THEN 1 ELSE 0)
    /\ SameTail(base, pre, heap_size)

\* A smaller outside item has been swapped in and has left the root again.
C9_Witness ==
  /\ op = "swap_max_item"
  /\ heap_size >= 4
  /\ less_comparer(ctx, pre_item, pre[0])
  /\ less_comparer(ctx, pre_item, base[0])

\* C10: after partial_sort(a, n, m), 0 <= m <= n: a[0..m) is sorted, no item
\* of a[m..n) is less than an item of a[0..m), and a is a permutation of the
\* input; m = 0 leaves the array unchanged, m = n and m = n-1 sort it all.
C10_PartialSort ==
  op = "partial_sort" =>
    LET n == Size(base)
        m == arg
    IN /\ DOMAIN base = DOMAIN pre
       /\ Sorted(ctx, base, m)
       /\ \A i \in 0..(m - 1) : \A j \in m..(n - 1) :
            ~less_comparer(ctx, base[j], base[i])
       /\ SameItems(base, pre, n)
       /\ (m = 0 => base = pre)
       /\ (m >= n - 1 => Sorted(ctx, base, n))

\* A partial sort with 0 < m < n-1 that swapped an item of the tail into the
\* heap.
C10_Witness ==
  /\ op = "partial_sort"
  /\ arg > 0
  /\ arg < Size(base) - 1
  /\ \E j \in arg..(Size(base) - 1) : base[j] # pre[j]

\* ---------------------------------------------------------------- n-way merge
\* The number of times v was put to the output.
OutCount(v) == Cardinality({i \in 1..Len(out) : out[i] = v})

\* C11: given k >= 1 non-empty sorted inputs whose multiset union is S,
\* nway_merge puts exactly |S| items, the items put are S in sorted order
\* (tests.c assert_sorted), and it returns only once every input is exhausted.
C11_NwayMerge ==
  op = "nway_merge" =>
    /\ Len(out) = Size(base)
    /\ \A v \in AllItems : OutCount(v) = Count(base, Size(base), v)
    /\ \A i \in 2..Len(out) : ~less_comparer(ctx, out[i], out[i - 1])
    /\ \A i \in DOMAIN ctxs : Exhausted(ctxs[i])

\* Three or more inputs, one of them longer than one item, have been merged
\* into an output that holds different items.
C11_Witness ==
  /\ op = "nway_merge"
  /\ Size(pre) >= 3
  /\ \E i \in DOMAIN pre : pre[i].end - pre[i].next >= 2
  /\ \E i, j \in 1..Len(out) : out[i] # out[j]

\* C12: during nway_merge neither get() nor next() is called on an input
\* whose next() has returned 0: the top input the loop reads and advances
\* is never exhausted, and neither is any context in the slots that
\* make_heap and restore_heap_after_item_decrease read.
C12_NoCallAfterEnd == op = "nway_merge" => late = 0

\* An input ran out while three others were still being merged in a paged
\* heap: the heap was restored with the exhausted context swapped out of it.
C12_Witness ==
  /\ op = "nway_merge"
  /\ late = 0
  /\ Size(pre) >= 4
  /\ ctx.page_chunks > 1
  /\ \E i, j \in DOMAIN pre : pre[i].end - pre[i].next # pre[j].end - pre[j].next

\* C13: after nway_merge the array of input contexts holds the original
\* contexts, each once and each advanced to the end of its input, in some
\* order.
C13_CtxsPermuted ==
  op = "nway_merge" =>
    /\ DOMAIN ctxs = DOMAIN pre
    /\ {ctxs[i] : i \in DOMAIN ctxs}
         = {[next |-> pre[i].end, end |-> pre[i].end] : i \in DOMAIN pre}
    /\ \A i, j \in DOMAIN ctxs : ctxs[i] = ctxs[j] => i = j

\* The merge has left the contexts in another order than it found them.
C13_Witness ==
  /\ op = "nway_merge"
  /\ Size(pre) >= 3
  /\ \E i \in DOMAIN pre : ctxs[i].end # pre[i].end

\* ---------------------------------------------------------------- is_heap_until
\* The parent of slot v > 0 in the heap of gheap.h, as _gheap_sift_up finds
\* it: inside v's page while v is not among the first fanout slots of the
\* page (rel_hole_index / fanout - 1), the slot whose number is the page's
\* otherwise ((hole_index - 1) / page_size).
SiftUpParent(c, v) ==
  LET page_size == c.page_chunks * c.fanout
      parent_index == (v - 1) \div page_size
      base_index == parent_index * page_size + 1
      rel_hole_index == v - base_index
  IN IF c.page_chunks > 1 /\ rel_hole_index >= c.fanout
       THEN base_index + (rel_hole_index \div c.fanout) - 1
       ELSE parent_index

\* The parent of slot v > 0 in the heap of gheap_c.c.
GetParent(c, v) == _get_parent_index(FALSE, c.fanout, c.page_chunks, v)

\* The smallest v in 1..n-1 whose item is greater than its parent's, n if
\* there is none.
FirstViolation(c, a, n, Parent(_, _)) ==
  LET bad == {v \in 1..(n - 1) : less_comparer(c, a[Parent(c, v)], a[v])}
  IN IF bad = {} THEN n ELSE Min(bad)

StrictlyAscending(c, a, n) ==
  \A i \in 1..(n - 1) : less_comparer(c, a[i - 1], a[i])

NonIncreasing(c, a, n) ==
  \A i \in 0..(n - 1) : \A j \in i..(n - 1) : ~less_comparer(c, a[i], a[j])

\* C14: is_heap_until(a, n) is the smallest v in [1, n) whose item is greater
\* than its parent's, or n if there is none (n itself for n < 2); a strictly
\* ascending array gives 1, a non-increasing one gives n, and is_heap(a, n)
\* is is_heap_until(a, n) = n.  For gheap.h the parent is the one its sift-up
\* climbs to, for gheap_c.c it is _get_parent_index.
C14_IsHeapUntil ==
  op = "is_heap_until" =>
    /\ heap_until.until = FirstViolation(ctx, base, arg, SiftUpParent)
    /\ heap_until.until_c = FirstViolation(ctx, base, arg, GetParent)
    /\ arg < 2 => heap_until.until = arg /\ heap_until.until_c = arg
    /\ (arg >= 1 /\ StrictlyAscending(ctx, base, arg))
         => heap_until.until = 1 /\ heap_until.until_c = 1
    /\ NonIncreasing(ctx, base, arg)
         => heap_until.until = arg /\ heap_until.until_c = arg
    /\ heap_until.is_heap = (heap_until.until = arg)
    /\ heap_until.is_heap_c = (heap_until.until_c = arg)

\* The first item greater than its parent's is in the second page of a paged
\* heap, among the children that the page's parent has outside its own page.
C14_Witness ==
  /\ op = "is_heap_until"
  /\ ctx.page_chunks > 1
  /\ heap_until.until > ctx.page_chunks * ctx.fanout
  /\ heap_until.until < arg
  /\ SiftUpParent(ctx, heap_until.until) = 1

\* ---------------------------------------------------------------- index algebra
\* C15 as stated: for every u > 0 with child(u) # SIZE_MAX, child(u) > u and
\* parent(child(u) + k) = u for each k in [0, d).
C15_Original ==
  (op = "parent_child" /\ node < SIZE_MAX /\ links.child # SIZE_MAX) =>
    /\ links.child > node
    /\ \A k \in 0..(ctx.fanout - 1) : links.parents[k] = node

\* C15 (amended): for every u > 0 with child(u) # SIZE_MAX, child(u) > u and
\* parent(child(u) + k) = u for each k in [0, d) for which child(u) + k is
\* an index, that is, does not exceed SIZE_MAX.
C15_ParentOfChildren ==
  (op = "parent_child" /\ node < SIZE_MAX /\ links.child # SIZE_MAX) =>
    /\ links.child > node
    /\ \A k \in 0..(ctx.fanout - 1) :
         links.child + k <= SIZE_MAX => links.parents[k] = node

\* The children of u start on another page than u's, and the last of them
\* is the last index there is.
C15_Witness ==
  /\ op = "parent_child"
  /\ ctx.page_chunks > 1
  /\ ctx.fanout > 1
  /\ links.child # SIZE_MAX
  /\ links.child > node + ctx.fanout * ctx.page_chunks
  /\ links.child + ctx.fanout - 1 = SIZE_MAX
  /\ \A k \in 0..(ctx.fanout - 1) : links.parents[k] = node

\* C16: for every u > 0, parent(u) < u and
\* child(parent(u)) <= u < child(parent(u)) + d.
C16_ChildOfParent ==
  op = "parent_child" =>
    /\ links.parent >= 0
    /\ links.parent < node
    /\ links.parent_child <= node
    /\ node < links.parent_child + ctx.fanout

\* u is the last child of a parent on another page, in a paged heap.
C16_Witness ==
  /\ op = "parent_child"
  /\ ctx.page_chunks > 1
  /\ ctx.fanout > 1
  /\ links.parent > 0
  /\ links.parent + ctx.fanout * ctx.page_chunks < node
  /\ node = links.parent_child + ctx.fanout - 1
\* ---------------------------------------------------------------- priority queue
Live == queue # << >> /\ queue.state = "live"

Destroyed == queue # << >> /\ queue.state = "destroyed"

\* C17: after any sequence of create / create_from_array / push / pop calls
\* the stored elements a[0..size) satisfy the heap invariant for the queue's
\* shape and comparator.
C17_QueueIsHeap ==
  Live => gheap_is_heap(ctx, queue.a, queue.size)

\* A queue of several items of both values that has been pushed to and
\* popped from.
C17_Witness ==
  /\ Live
  /\ queue.size >= 3
  /\ queue.pushes >= 1
  /\ queue.pops >= 1
  /\ \E i, j \in 0..(queue.size - 1) : queue.a[i] # queue.a[j]
  /\ gheap_is_heap(ctx, queue.a, queue.size)

\* C18: the deleter is invoked exactly once for every element that ever
\* entered the queue (from the initial array or by push): at the pop that
\* removes it, or at destroy if it is still held; never twice and never for
\* an element still in the queue.  While the queue lives, the elements that
\* entered are those deleted plus those held, and a pop deletes the element
\* that was the top; once destroyed, the elements deleted are the elements
\* that entered.
C18_DeleterOnce ==
  /\ Live =>
       /\ \A v \in Items :
            queue.entered[v] = queue.deleted[v] + ItemsOf(queue.a, queue.size)[v]
       /\ queue.last_deleted # -1 => queue.last_deleted = queue.prev_top
  /\ Destroyed => queue.deleted = queue.entered

\* A destroyed queue that got elements from the array and by push, lost some
\* at pops and the others at destroy.
C18_Witness ==
  /\ Destroyed
  /\ queue.n0 >= 2
  /\ queue.pushes >= 1
  /\ queue.pops >= 1
  /\ queue.pops < queue.n0 + queue.pushes
  /\ queue.deleted = queue.entered
  /\ \A v \in Items : queue.entered[v] >= 1

NotLess(c, x, y) == ~ctx_less_comparer(c, x, y)

\* C19: size() equals the number of elements initially given plus pushes
\* minus pops, empty() holds exactly when that is 0, top() is a maximum of
\* the multiset held, and the top after a pop is not greater than the top
\* before it.
C19_SizeEmptyTop ==
  Live =>
    /\ gpriority_queue_size(queue) = queue.n0 + queue.pushes - queue.pops
    /\ gpriority_queue_empty(queue) <=> queue.n0 + queue.pushes - queue.pops = 0
    /\ ~gpriority_queue_empty(queue) =>
         /\ \A i \in 0..(queue.size - 1) :
              NotLess(ctx, gpriority_queue_top(queue), queue.a[i])
         /\ queue.prev_top # -1 =>
              NotLess(ctx, queue.prev_top, gpriority_queue_top(queue))

\* A pop that uncovered a smaller top in a queue that was pushed to.
C19_Witness ==
  /\ Live
  /\ queue.n0 >= 1
  /\ queue.pushes >= 1
  /\ queue.pops >= 1
  /\ queue.size >= 2
  /\ queue.size = queue.n0 + queue.pushes - queue.pops
  /\ queue.prev_top # -1
  /\ ctx_less_comparer(ctx, gpriority_queue_top(queue), queue.prev_top)

\* ---------------------------------------------------------------- n-way mergesort
RECURSIVE SumSeq(_)
SumSeq(q) == IF q = << >> THEN 0 ELSE Head(q) + SumSeq(Tail(q))

RECURSIVE Power(_, _)
Power(b, e) == IF e = 0 THEN 1 ELSE b * Power(b, e - 1)

\* The number of runs of run_size items, the last maybe shorter, in n items.
RunsIn(n, run_size) == (n + run_size - 1) \div run_size

\* C20: for every input of size n >= 0, every small_range_size >= 1 and every
\* subranges_count >= 2, nway_mergesort leaves the range sorted in
\* non-decreasing order and a permutation of the input; every run a merge
\* reads is sorted and non-empty, pass j of step 2 works on runs of
\* small_range_size * subranges_count^(j-1) items, merges all of them in
\* groups of 1..subranges_count runs, and the last pass is the one that
\* merges all the runs left in a single group.
C20_NwayMergesort ==
  op = "nway_mergesort" =>
    LET n == Size(base)
        k == mergesort.subranges_count
        passes == mergesort.passes
    IN /\ DOMAIN mergesort.a = 0..(n - 1)
       /\ Sorted(ctx, mergesort.a, n)
       /\ \A v \in AllItems : Count(mergesort.a, n, v) = Count(base, n, v)
       /\ mergesort.sorted
       /\ mergesort.late = 0
       /\ Len(passes) >= 1
       /\ \A j \in 1..Len(passes) :
            /\ passes[j].subrange_size = mergesort.small_range_size * Power(k, j - 1)
            /\ \A g \in 1..Len(passes[j].groups) : passes[j].groups[g] \in 1..k
            /\ SumSeq(passes[j].groups) = RunsIn(n, passes[j].subrange_size)
            /\ j < Len(passes) => RunsIn(n, passes[j].subrange_size) > 1
            /\ j = Len(passes) => Len(passes[j].groups) <= 1

\* A range of different items that was not sorted took three passes, one of
\* them with a full tuple and a shorter tail tuple.
C20_Witness ==
  /\ op = "nway_mergesort"
  /\ ~Sorted(ctx, base, Size(base))
  /\ Sorted(ctx, mergesort.a, Size(base))
  /\ Len(mergesort.passes) >= 3
  /\ \E j \in 1..Len(mergesort.passes) :
       /\ Len(mergesort.passes[j].groups) >= 2
       /\ \E g \in 1..Len(mergesort.passes[j].groups) :
            mergesort.passes[j].groups[g] < mergesort.subranges_count

\* The first m slots of a and b hold the same items in the same order.
SamePrefix(a, b, m) == \A j \in 0..(m - 1) : a[j] = b[j]

C22_Original ==
  op = "is_heap_until" =>
    /\ \A v \in 1..(Size(base) - 1) : SiftUpParent(ctx, v) = GetParent(ctx, v)
    /\ heap_until.until = heap_until.until_c
    /\ heap_until.is_heap = heap_until.is_heap_c


\* The parent of u > 0 by the formulas of gheap_c.c _get_parent_index in
\* unbounded integers.
exact_parent_index(fanout, page_chunks, u0) ==
  LET u == u0 - 1
      page_size == fanout * page_chunks
      v == u % page_size
      v1 == u \div page_size - 1
      page_leaves == (fanout - 1) * page_chunks + 1
      u1 == v1 \div page_leaves + 1
  IN IF page_chunks = 1 THEN u \div fanout
     ELSE IF u < fanout THEN 0
     ELSE IF v >= fanout THEN u - v + v \div fanout
     ELSE u1 * page_size + (v1 % page_leaves) - page_leaves + 1

\* The first child of u by the formulas of gheap_c.c _get_child_index in
\* unbounded integers, without the overflow checks.
exact_child_index(fanout, page_chunks, u0) ==
  LET page_size == fanout * page_chunks
      u == u0 - 1
      v == (u % page_size) + 1
      page_leaves == (fanout - 1) * page_chunks + 1
      v_slow == v + (u \div page_size + 1) * page_leaves - page_size
  IN IF page_chunks = 1 THEN u0 * fanout + 1
     ELSE IF u0 = 0 THEN 1
     ELSE IF v < page_size \div fanout THEN u + v * (fanout - 1) + 2
     ELSE v_slow * page_size + 1

\* The two functions of gheap_c.c return what the unbounded formulas give:
\* the first child of u < SIZE_MAX is the exact index when it fits size_t and
\* SIZE_MAX otherwise, the parent of u in (0, SIZE_MAX] is the exact parent.
ExactIndexes ==
  LET d == ctx.fanout
      p == ctx.page_chunks
  IN /\ node < SIZE_MAX =>
          links.child = IF exact_child_index(d, p, node) <= SIZE_MAX
                          THEN exact_child_index(d, p, node)
                          ELSE SIZE_MAX
     /\ links.parent = exact_parent_index(d, p, node)

\* child(parent(u)) <= u < child(parent(u)) + d.
ChildOfParent ==
  /\ links.parent_child <= node
  /\ node < links.parent_child + ctx.fanout

\* C23 as stated: with w-bit size_t arithmetic, for every d, p with
\* d * p <= SIZE_MAX and every u < SIZE_MAX, get_child_index returns the
\* exact first-child index when it fits size_t and SIZE_MAX otherwise, and
\* get_parent_index the exact parent for every u in (0, SIZE_MAX]; so the
\* inverse properties (parent(child(u) + k) = u for each k in [0, d) when
\* the child is not saturated, child(parent(u)) <= u < child(parent(u)) + d)
\* also hold for indexes close to SIZE_MAX.
C23_Original ==
  op = "parent_child" =>
    /\ ExactIndexes
    /\ ChildOfParent
    /\ (node < SIZE_MAX /\ links.child # SIZE_MAX) =>
         \A k \in 0..(ctx.fanout - 1) : links.parents[k] = node

\* C23: get_child_index and get_parent_index return the exact results for
\* every d, p with d * p <= SIZE_MAX and every index, and the inverse
\* properties hold next to SIZE_MAX for every sibling index child(u) + k
\* that itself fits size_t.
C23_ExactIndexes ==
  op = "parent_child" =>
    /\ ExactIndexes
    /\ ChildOfParent
    /\ (node < SIZE_MAX /\ links.child # SIZE_MAX) =>
         \A k \in 0..(ctx.fanout - 1) :
           links.child + k <= SIZE_MAX => links.parents[k] = node

\* Next to SIZE_MAX in a paged heap: the first child of the index is on
\* another page and does not fit size_t (it is reported as SIZE_MAX), and
\* its parent is the exact one.
C23_Witness ==
  /\ op = "parent_child"
  /\ ctx.page_chunks > 1
  /\ ctx.fanout > 1
  /\ node = SIZE_MAX - 1
  /\ links.child = SIZE_MAX
  /\ exact_child_index(ctx.fanout, ctx.page_chunks, node) > 2 * SIZE_MAX
  /\ links.parent = exact_parent_index(ctx.fanout, ctx.page_chunks, node)
  /\ links.parent > 0

\* C24 as stated: with heap_size = 0, is_heap_until returns 0 and is_heap
\* returns true, and every other operation (make_heap, push_heap, pop_heap,
\* sort_heap, swap_max_item, restore_heap_after_item_increase/decrease,
\* remove_from_heap) trips a debug assertion instead of returning normally.
C24_Original ==
  (op # "none" /\ probe.n = 0) =>
    IF op = "is_heap_until"
      THEN ~probe.failed /\ probe.ret = 0
      ELSE probe.failed

\* C24: with heap_size = 0, is_heap_until returns 0 (so is_heap is true);
\* make_heap and sort_heap return normally and touch no slot; push_heap,
\* pop_heap, swap_max_item, restore_heap_after_item_increase/decrease and
\* remove_from_heap trip assert(heap_size > 0).
C24_EmptyHeap ==
  (op # "none" /\ probe.n = 0) =>
    /\ op = "is_heap_until" => ~probe.failed /\ probe.ret = 0
    /\ op \in {"make_heap", "sort_heap"} =>
         /\ ~probe.failed
         /\ probe.a = base
         /\ probe.top = -1
    /\ op \notin {"is_heap_until", "make_heap", "sort_heap"} =>
         /\ probe.failed
         /\ probe.a = probe.a0

\* push_heap was called with heap_size = 0 on a buffer that holds items, and
\* the assert stopped it.
C24_Witness ==
  /\ op = "push_heap"
  /\ probe.n = 0
  /\ probe.failed
  /\ Size(base) > 0


\* C25: in every heap operation and in nway_merge, for all inputs and shapes
\* that satisfy the preconditions, the item mover is never called with
\* source and destination being the same slot.
C25_NoSelfMove ==
  (op # "none" /\ ~probe.failed) => ~probe.self

\* The last item of a heap of several items was removed: the one call whose
\* source slot and destination slot coincide, and the mover was not called
\* for it.
C25_Witness ==
  /\ op = "remove_from_heap"
  /\ ~probe.failed
  /\ probe.n >= 3
  /\ probe.i = probe.n - 1
  /\ ~probe.self

\* The children of slot h in a heap of n items laid out by gheap.h, and by
\* gheap_c.c.
ChildrenOf(c, h, n) == {v \in 1..(n - 1) : SiftUpParent(c, v) = h}

ChildrenOfC(c, h, n) == {v \in 1..(n - 1) : GetParent(c, v) = h}

\* Of the tagged items in the slots S of a, the one in slot v is a maximum
\* and every one in a slot after v is less than it: v is the highest slot
\* that holds a maximum.
HighestMaximum(c, a, S, v) ==
  /\ v \in S
  /\ \A w \in S :
       /\ ~ctx_less_comparer(c, a[v], a[w])
       /\ w > v => ctx_less_comparer(c, a[w], a[v])

\* C26: in every sift-down step, when several children of the hole compare
\* as equivalent maxima, the child with the highest index is the one moved
\* into the hole, among the siblings of one chunk and between the in-page
\* children and the child-page children of a paged heap (gheap.h: every slot
\* that ends up holding what one of its children held holds the highest of
\* its maximum children; gheap_c.c: one turn of _sift_down moves the highest
\* maximum child of the hole and makes its slot the hole).
C26_HighestIndexWins ==
  /\ op = "sift_down" =>
       \A h \in 0..(probe.n - 1) :
         probe.a[h].next \in ChildrenOf(ctx, h, probe.n) =>
           HighestMaximum(TagCtx(ctx, base), probe.a0,
                          ChildrenOf(ctx, h, probe.n), probe.a[h].next)
  /\ op = "move_up_max_child" =>
       IF ChildrenOfC(ctx, probe.i, probe.n) = {}
         THEN probe.ret = probe.i /\ probe.a = probe.a0
         ELSE /\ HighestMaximum(TagCtx(ctx, base), probe.a0,
                                ChildrenOfC(ctx, probe.i, probe.n), probe.ret)
              /\ probe.a = [probe.a0 EXCEPT ![probe.i] = probe.a0[probe.ret]]

\* A hole of a paged heap had equal maxima among its children in its own
\* page and in its child page, and the child of the child page, the one with
\* the highest index, was moved into it.
C26_Witness ==
  /\ op = "sift_down"
  /\ ctx.page_chunks > 1
  /\ \E h \in 0..(probe.n - 1) :
       LET page_size == ctx.page_chunks * ctx.fanout
           moved == probe.a[h].next
       IN /\ moved \in ChildrenOf(ctx, h, probe.n)
          /\ moved >= h * page_size + 1
          /\ \E w \in ChildrenOf(ctx, h, probe.n) :
               /\ w < h * page_size + 1
               /\ base[w] = base[moved]


\* The buffer a with every slot from n on holding t.
WithTail(a, n, t) == [j \in DOMAIN a |-> IF j < n THEN a[j] ELSE t]

\* C27: for every shape, heap_size and hole index, every slot that make_heap,
\* push_heap, pop_heap, sort_heap, swap_max_item,
\* restore_heap_after_item_increase/decrease, remove_from_heap and
\* is_heap_until read, compare or write has an index < heap_size (for
\* pop_heap and remove_from_heap with the slot heap_size - 1 that receives
\* the extracted item); the slots a[heap_size..) are left unchanged, and
\* what is_heap_until returns does not depend on them.
C27_WithinWindow ==
  (op \in {"make_heap", "push_heap", "pop_heap", "sort_heap", "swap_max_item",
           "restore_heap_after_item_increase",
           "restore_heap_after_item_decrease", "remove_from_heap",
           "is_heap_until", "sift_down"}
     /\ ~probe.failed) =>
    /\ probe.top < probe.n
    /\ DOMAIN probe.a = DOMAIN probe.a0
    /\ \A j \in DOMAIN probe.a0 : j >= probe.n => probe.a[j] = probe.a0[j]
    /\ op = "is_heap_until" =>
         \A t \in AllItems :
           probe.ret = gheap_is_heap_until(ctx, WithTail(base, probe.n, t),
                                           probe.n)

\* The maximum of a paged heap of more than one page was popped next to
\* items that are not part of the heap: the last slot of the window was
\* touched and nothing after it.
C27_Witness ==
  /\ op = "pop_heap"
  /\ ~probe.failed
  /\ ctx.page_chunks > 1
  /\ probe.n >= 4
  /\ Size(base) > probe.n
  /\ probe.top = probe.n - 1
  /\ probe.a # probe.a0


\* Slot v is slot r or one of its descendants in the heap tree of gheap.h.
RECURSIVE InSubtree(_, _, _)
InSubtree(c, v, r) ==
  IF v = r THEN TRUE
  ELSE IF v <= r THEN FALSE
  ELSE InSubtree(c, SiftUpParent(c, v), r)

\* C28: restore_heap_after_item_decrease(a, n, i) changes only slot i and
\* slots that are descendants of i in the heap tree; every slot that is not
\* in the subtree rooted at i keeps its value (pre is the buffer with the
\* decreased item in slot i, arg is i).
C28_OnlySubtree ==
  op = "restore_heap_after_item_decrease" =>
    /\ DOMAIN base = DOMAIN pre
    /\ \A v \in DOMAIN base :
         base[v] # pre[v] => v < heap_size /\ InSubtree(ctx, v, arg)

\* An item below the root of a paged heap was decreased and went two levels
\* down, while its siblings and ancestors kept their items.
C28_Witness ==
  /\ op = "restore_heap_after_item_decrease"
  /\ ctx.page_chunks > 1
  /\ arg >= 1
  /\ base[arg] # pre[arg]
  /\ \E v \in DOMAIN base :
       /\ v # arg
       /\ SiftUpParent(ctx, v) # arg
       /\ InSubtree(ctx, v, arg)
       /\ base[v] # pre[v]


\* C29: make_heap is idempotent on key values: if a[0..n) is already a valid
\* heap, make_heap(a, n) leaves the sequence of keys unchanged, and likewise
\* restore_heap_after_item_decrease on a valid heap changes nothing (pre is
\* the buffer the operation was called on).
C29_Idempotent ==
  /\ (op = "make_heap" /\ gheap_is_heap(ctx, pre, Size(pre))) => base = pre
  /\ (op = "restore_heap_after_item_decrease"
        /\ gheap_is_heap(ctx, pre, pre_size)) => base = pre

\* make_heap was given a paged heap of six items with different keys on the
\* way from the root to a leaf, and left it as it was.
C29_Witness ==
  /\ op = "make_heap"
  /\ ctx.page_chunks > 1
  /\ Size(pre) >= 6
  /\ gheap_is_heap(ctx, pre, Size(pre))
  /\ pre[0] # pre[Size(pre) - 1]
  /\ base = pre



\* ---------------------------------------------------------------- run sizes
\* What one pass of nway_mergesort over range_size items keeps to: every
\* nway_merge gets 1..subranges_count runs, none of them empty, the tail
\* tuple holds fewer than subranges_count full runs, the tuples end exactly
\* at the end of the range, and the product the pass computes is the exact
\* one, within the range.
PassInBounds(p, range_size, subranges_count) ==
  /\ \A g \in 1..Len(p.groups) : p.groups[g] \in 1..subranges_count
  /\ p.shortest >= 1
  /\ p.asserted
  /\ ~p.overrun
  /\ SumSeq(p.groups) = RunsIn(range_size, p.subrange_size)
  /\ p.tuple_size # 0 =>
       /\ p.tuple_size = p.subrange_size * subranges_count
       /\ p.tuple_size <= range_size

\* C30: nway_mergesort terminates for every range size, small_range_size >= 1
\* and subranges_count >= 2: the run size strictly grows from pass to pass
\* until it exceeds range_size / subranges_count, where the loop breaks; in
\* every pass each nway_merge gets between 1 and subranges_count non-empty
\* runs and the tail tuple has fewer than subranges_count full runs; the
\* small-range sorter is never called on an empty range; no product
\* subrange_size * subranges_count overflows size_t.
C30_Terminates ==
  op = "nway_mergesort" =>
    /\ probe.merges.done
    /\ Len(probe.merges.passes) \in 1..(SizeBits + 1)
    /\ \A j \in 1..Len(probe.merges.passes) :
         /\ PassInBounds(probe.merges.passes[j], node, ctx.subranges_count)
         /\ (probe.merges.passes[j].subrange_size
               > node \div ctx.subranges_count) <=>
              j = Len(probe.merges.passes)
         /\ j > 1 =>
              /\ probe.merges.passes[j].subrange_size
                   = probe.merges.passes[j - 1].subrange_size
                       * ctx.subranges_count
              /\ probe.merges.passes[j].subrange_size
                   > probe.merges.passes[j - 1].subrange_size
    /\ \A r \in probe.sorter : r.first < r.last
    /\ Cardinality(probe.sorter) = RunsIn(node, ctx.small_range_size)
    /\ node > 0 => \E r \in probe.sorter : r.last = node

\* A sort of SIZE_MAX items in three passes whose last run size, multiplied
\* once more, would not fit size_t; the sorter has a short tail range.
C30_Witness ==
  /\ op = "nway_mergesort"
  /\ node = SIZE_MAX
  /\ Len(probe.merges.passes) >= 3
  /\ probe.merges.passes[Len(probe.merges.passes)].subrange_size
       * ctx.subranges_count > SIZE_MAX
  /\ probe.merges.passes[1].groups[Len(probe.merges.passes[1].groups)]
       < ctx.subranges_count
  /\ node % ctx.small_range_size # 0

====
